---- MODULE Spec2Model ----
(***************************************************************************)
(* A model of the core runtime substrate of the boa ECMAScript engine:     *)
(*   - JsString, the reference-counted heap string (boa/src/string.rs);    *)
(*   - FunctionEnvironmentRecord                                           *)
(*     (boa/src/environment/function_environment_record.rs);               *)
(*   - GlobalEnvironmentRecord                                             *)
(*     (boa/src/environment/global_environment_record.rs).                 *)
(* Each component has its own specification (SpecString, SpecFunction,     *)
(* SpecGlobal) over the same variables; a component's specification leaves *)
(* the other components' variables alone.                                  *)
(***************************************************************************)
EXTENDS Integers, Sequences, FiniteSets, TLC

VARIABLES
    heap,       \* string.rs: allocation id -> Inner (or NoInner before alloc)
    handle,     \* string.rs: handle slot -> allocation id its `inner` points to (0: no handle)
    frees,      \* allocator hook: allocation id -> number of dealloc calls on it
    strLast,    \* the last JsString operation and what it observed
    fnRec,      \* function_environment_record.rs: the FunctionEnvironmentRecord's own fields
    fnDecl,     \* its declarative_record: name -> binding
    fnBound,    \* the value the successful bind_this_value was given ("none" before it)
    fnLast,     \* the last operation on the Function record, its argument and its result
    fnPanicked, \* a panic!/todo!/unwrap on Err has unwound out of the Function record
    gObj,       \* global_environment_record.rs: object_record.bindings, the global object
    gDecl,      \* its declarative_record: name -> binding
    var_names,  \* its var_names set
    gLast,      \* the last operation on the Global record, its arguments and its result
    gPanicked,  \* a panic!/assert! has unwound out of the Global record
    global_this_binding, \* its global_this_binding: the object get_this_binding hands out
    call        \* string.rs: the last call of a function of text alone: arguments and result

varsString == <<heap, handle, frees, strLast>>

varsFunction == <<fnRec, fnDecl, fnBound, fnLast, fnPanicked>>

varsGlobal == <<gObj, gDecl, var_names, gLast, gPanicked, global_this_binding>>

varsCalls == <<call>>

vars == <<heap, handle, frees, strLast, fnRec, fnDecl, fnBound, fnLast, fnPanicked,
          gObj, gDecl, var_names, gLast, gPanicked, global_this_binding, call>>

(***************************************************************************)
(* Bounds.                                                                 *)
(***************************************************************************)
MaxOps == 3
MaxAllocs == 2
MaxHandles == 3
MaxTextLen == 1
MaxPad == 1
MaxTail == 1

AllocIds == 1..MaxAllocs
HandleIds == 1..MaxHandles

\* The bytes a text is made of ("a", "b").
Bytes == {97, 98}

RECURSIVE SeqsUpTo(_)
SeqsUpTo(n) ==
    IF n = 0 THEN {<<>>}
    ELSE LET shorter == SeqsUpTo(n - 1)
         IN shorter \cup {Append(s, b) : s \in {t \in shorter : Len(t) = n - 1}, b \in Bytes}

Texts == SeqsUpTo(MaxTextLen)

(***************************************************************************)
(* JsString (string.rs).                                                   *)
(***************************************************************************)
\* A slot of the heap no allocation has been placed in yet.
NoInner == [live |-> FALSE, len |-> 0, refcount |-> 0, data |-> <<>>]

\* An Inner::new that records one byte less than it copies.
Inner_new_ShortLen(s) ==
    [live |-> TRUE, len |-> IF Len(s) > 0 THEN Len(s) - 1 ELSE 0, refcount |-> 1,
     data |-> s]

\* struct Inner { len, refcount, data } as written by Inner::new.
Inner_new(s) == [live |-> TRUE, len |-> Len(s), refcount |-> 1, data |-> s]

\* Inner::dealloc: the memory goes back to the allocator.
Inner_dealloc(in) == [in EXCEPT !.live = FALSE]

\* The allocations alloc() has handed out so far.
Allocated == {a \in AllocIds : heap[a] # NoInner}

\* The handles that exist (constructed and not yet dropped).
LiveHandles == {h \in HandleIds : handle[h] # 0}

HandlesOf(a) == {h \in HandleIds : handle[h] = a}

\* JsString::refcount(this)
refcount(h) == heap[handle[h]].refcount

\* JsString::as_str(self)
as_str(h) == SubSeq(heap[handle[h]].data, 1, heap[handle[h]].len)

\* x.len(), str::len through Deref<Target = str>: the length in bytes
JsString_len(h) == Len(as_str(h))

\* A ptr_eq that compares what the handles read.
ptr_eq_ByContent(x, y) == as_str(x) = as_str(y)

\* JsString::ptr_eq(x, y)
ptr_eq(x, y) == handle[x] = handle[y]

\* JsString::new(s): a fresh allocation, and a handle h to it.
JsString_new(h, s) ==
    /\ handle[h] = 0
    /\ \E a \in AllocIds :
        /\ heap[a] = NoInner
        /\ \A b \in AllocIds : b < a => heap[b] # NoInner
        /\ heap' = [heap EXCEPT ![a] = Inner_new(s)]
        /\ handle' = [handle EXCEPT ![h] = a]
        /\ strLast' = [op |-> "new", h |-> h, src |-> 0, alloc |-> a, pre |-> 0,
                       text |-> s]
    /\ UNCHANGED frees

\* A clone that hands out the pointer and forgets the count.
Clone_NoIncrement(x, y) ==
    /\ handle[x] # 0
    /\ handle[y] = 0
    /\ handle' = [handle EXCEPT ![y] = handle[x]]
    /\ strLast' = [op |-> "clone", h |-> y, src |-> x, alloc |-> handle[x],
                   pre |-> heap[handle[x]].refcount]
    /\ UNCHANGED <<heap, frees>>

\* impl Clone for JsString: y = x.clone()
Clone(x, y) ==
    /\ handle[x] # 0
    /\ handle[y] = 0
    /\ LET a == handle[x] IN
        /\ heap' = [heap EXCEPT ![a].refcount = heap[a].refcount + 1]
        /\ handle' = [handle EXCEPT ![y] = a]
        /\ strLast' = [op |-> "clone", h |-> y, src |-> x, alloc |-> a,
                       pre |-> heap[a].refcount]
    /\ UNCHANGED frees

\* A drop that compares the count after decrementing it: frees one drop early.
Drop_EarlyFree(h) ==
    /\ handle[h] # 0
    /\ LET a == handle[h] IN
        /\ IF heap[a].refcount - 1 <= 1
           THEN /\ heap' = [heap EXCEPT ![a] = Inner_dealloc(heap[a])]
                /\ frees' = [frees EXCEPT ![a] = frees[a] + 1]
           ELSE /\ heap' = [heap EXCEPT ![a].refcount = heap[a].refcount - 1]
                /\ UNCHANGED frees
        /\ strLast' = [op |-> "drop", h |-> h, src |-> 0, alloc |-> a,
                       pre |-> heap[a].refcount]
    /\ handle' = [handle EXCEPT ![h] = 0]

\* A drop that leaves the count alone unless it frees.
Drop_NoDecrement(h) ==
    /\ handle[h] # 0
    /\ LET a == handle[h] IN
        /\ IF heap[a].refcount = 1
           THEN /\ heap' = [heap EXCEPT ![a] = Inner_dealloc(heap[a])]
                /\ frees' = [frees EXCEPT ![a] = frees[a] + 1]
           ELSE UNCHANGED <<heap, frees>>
        /\ strLast' = [op |-> "drop", h |-> h, src |-> 0, alloc |-> a,
                       pre |-> heap[a].refcount]
    /\ handle' = [handle EXCEPT ![h] = 0]

\* impl Drop for JsString: the handle h goes out of scope.
Drop(h) ==
    /\ handle[h] # 0
    /\ LET a == handle[h] IN
        /\ IF heap[a].refcount = 1
           THEN /\ heap' = [heap EXCEPT ![a] = Inner_dealloc(heap[a])]
                /\ frees' = [frees EXCEPT ![a] = frees[a] + 1]
           ELSE /\ heap' = [heap EXCEPT ![a].refcount = heap[a].refcount - 1]
                /\ UNCHANGED frees
        /\ strLast' = [op |-> "drop", h |-> h, src |-> 0, alloc |-> a,
                       pre |-> heap[a].refcount]
    /\ handle' = [handle EXCEPT ![h] = 0]

\* What concat is given for one argument, some T: AsRef<str>: a text that is
\* not a JsString ("str"), a borrowed JsString ("ref": &JsString), or a
\* JsString passed by value ("own"), which moves the caller's handle in.
StrArg(t) == [kind |-> "str", h |-> 0, text |-> t]
RefArg(h) == [kind |-> "ref", h |-> h, text |-> <<>>]
OwnArg(h) == [kind |-> "own", h |-> h, text |-> <<>>]

ConcatArgs ==
    {StrArg(t) : t \in Texts} \cup {RefArg(h) : h \in LiveHandles}
        \cup {OwnArg(h) : h \in LiveHandles}

\* x.as_ref() for an argument of concat
as_ref(arg) == IF arg.kind = "str" THEN arg.text ELSE as_str(arg.h)

\* struct Inner as written by Inner::concat(x, y)
Inner_concat(x, y) ==
    [live |-> TRUE, len |-> Len(x) + Len(y), refcount |-> 1, data |-> x \o y]

\* The end of concat's scope for one argument: a JsString that was passed by
\* value is dropped there (impl Drop for JsString), nothing else is.
EndOfScope(st, arg) ==
    IF arg.kind # "own" THEN st
    ELSE LET a == st.handle[arg.h] IN
         [heap |-> IF st.heap[a].refcount = 1
                   THEN [st.heap EXCEPT ![a] = Inner_dealloc(st.heap[a])]
                   ELSE [st.heap EXCEPT ![a].refcount = st.heap[a].refcount - 1],
          frees |-> IF st.heap[a].refcount = 1
                    THEN [st.frees EXCEPT ![a] = st.frees[a] + 1]
                    ELSE st.frees,
          handle |-> [st.handle EXCEPT ![arg.h] = 0]]

\* A concat that hands out its first argument's allocation when the second
\* text is empty.
JsString_concat_SharesWhenEmpty(r, x, y) ==
    /\ handle[r] = 0
    /\ x.kind = "ref" /\ as_ref(y) = <<>>
    /\ heap' = [heap EXCEPT ![handle[x.h]].refcount = heap[handle[x.h]].refcount + 1]
    /\ handle' = [handle EXCEPT ![r] = handle[x.h]]
    /\ strLast' = [op |-> "concat", h |-> r, src |-> <<x, y>>, alloc |-> handle[x.h],
                   pre |-> 0]
    /\ UNCHANGED frees

\* JsString::concat(x, y): r = JsString::concat(x, y).  The texts are read, a
\* fresh allocation is filled with one after the other, and the arguments go
\* out of scope.  Two arguments passed by value are two handles, and a handle
\* that is borrowed is not moved in the same call.
JsString_concat(r, x, y) ==
    /\ handle[r] = 0
    /\ x.kind # "str" /\ y.kind # "str" /\ x.h = y.h => x.kind = "ref" /\ y.kind = "ref"
    /\ Len(as_ref(x)) + Len(as_ref(y)) <= MaxTextLen + 1
    /\ \E a \in AllocIds :
        /\ heap[a] = NoInner
        /\ \A b \in AllocIds : b < a => heap[b] # NoInner
        /\ LET made == [heap |-> [heap EXCEPT ![a] = Inner_concat(as_ref(x), as_ref(y))],
                        frees |-> frees,
                        handle |-> [handle EXCEPT ![r] = a]]
               left == EndOfScope(EndOfScope(made, y), x)
           IN  /\ heap' = left.heap
               /\ handle' = left.handle
               /\ frees' = left.frees
        /\ strLast' = [op |-> "concat", h |-> r, src |-> <<x, y>>, alloc |-> a,
                       pre |-> <<IF x.kind = "str" THEN 0 ELSE refcount(x.h),
                                 IF y.kind = "str" THEN 0 ELSE refcount(y.h)>>]

\* The bytes str's Hash impl feeds the hasher: the text, then 0xff.
str_hash(s) == s \o <<255>>

\* impl Hash for JsString: what hash(state) feeds the hasher
JsString_hash(x) == str_hash(as_str(x))

\* An equality of pointers only.
JsString_eq_PointerOnly(x, y) == ptr_eq(x, y)

\* impl PartialEq<JsString> for JsString: x == y
JsString_eq(x, y) ==
    IF ptr_eq(x, y) THEN TRUE ELSE as_str(x) = as_str(y)

\* x == y evaluated on two handles, taken in slot order: the comparison reads
\* the same two allocations either way round.
Compare(x, y) ==
    /\ x < y
    /\ handle[x] # 0
    /\ handle[y] # 0
    /\ strLast' = [op |-> "eq", h |-> x, src |-> y, alloc |-> handle[x], pre |-> 0,
                   out |-> JsString_eq(x, y)]
    /\ UNCHANGED <<heap, handle, frees>>

\* JsString::ptr_eq(&x, &y) evaluated on two handles, taken in slot order
PtrEq(x, y) ==
    /\ x < y
    /\ handle[x] # 0
    /\ handle[y] # 0
    /\ strLast' = [op |-> "ptr_eq", h |-> x, src |-> y, alloc |-> handle[x], pre |-> 0,
                   out |-> ptr_eq(x, y)]
    /\ UNCHANGED <<heap, handle, frees>>

\* x.hash(&mut hasher) evaluated on a handle
Hash(x) ==
    /\ handle[x] # 0
    /\ strLast' = [op |-> "hash", h |-> x, src |-> 0, alloc |-> handle[x], pre |-> 0,
                   out |-> JsString_hash(x)]
    /\ UNCHANGED <<heap, handle, frees>>

InitStringVars ==
    /\ heap = [a \in AllocIds |-> NoInner]
    /\ handle = [h \in HandleIds |-> 0]
    /\ frees = [a \in AllocIds |-> 0]
    /\ strLast = [op |-> "none", h |-> 0, src |-> 0, alloc |-> 0, pre |-> 0]

(***************************************************************************)
(* Values, names and results shared by the environment records.            *)
(***************************************************************************)
\* JsValue: undefined, a primitive, a heap object.
Undefined == "undefined"
Objects == {"obj1"}
Values == {Undefined, "v1"} \cup Objects

\* The values the modelled scripts store in bindings.
BindingValues == {Undefined, "v1"}

\* Binding names.
Names == {"x", "y"}

\* JsResult<T>: Ok(v), Err(a thrown error of some kind); or the call never
\* returned because it panicked.
Ok(v) == [kind |-> "ok", val |-> v]
Err(e) == [kind |-> "err", val |-> e]
Panic(msg) == [kind |-> "panic", val |-> msg]
Unit == "()"

(***************************************************************************)
(* DeclarativeEnvironmentRecord: the record both the Function and the      *)
(* Global record embed.  A binding has an optional value (present iff      *)
(* initialized), mutability, deletability and strictness.                  *)
(***************************************************************************)
NoBinding == [present |-> FALSE]
NoValue == "none"

Binding(v, m, d, s) ==
    [present |-> TRUE, value |-> v, mutable |-> m, deletable |-> d, strict |-> s]

EmptyDecl == [n \in Names |-> NoBinding]

Decl_has_binding(d, n) == d[n].present

\* Each operation gives the record afterwards and the result.
Decl_create_mutable_binding(d, n, deletion, allow_name_reuse) ==
    IF Decl_has_binding(d, n) /\ ~allow_name_reuse
    THEN [decl |-> d, out |-> Err("TypeError: binding already exists")]
    ELSE [decl |-> [d EXCEPT ![n] = Binding(NoValue, TRUE, deletion, FALSE)],
          out |-> Ok(Unit)]

Decl_create_immutable_binding(d, n, strict) ==
    IF Decl_has_binding(d, n)
    THEN [decl |-> d, out |-> Err("TypeError: binding already exists")]
    ELSE [decl |-> [d EXCEPT ![n] = Binding(NoValue, FALSE, FALSE, strict)],
          out |-> Ok(Unit)]

\* Called on a name the record holds.
Decl_initialize_binding(d, n, v) ==
    [decl |-> [d EXCEPT ![n].value = v], out |-> Ok(Unit)]

\* Called on a name the record holds.
Decl_set_mutable_binding(d, n, v, strict) ==
    IF d[n].value = NoValue
    THEN [decl |-> [d EXCEPT ![n].value = v], out |-> Ok(Unit)]
    ELSE IF d[n].mutable
    THEN [decl |-> [d EXCEPT ![n].value = v], out |-> Ok(Unit)]
    ELSE IF strict \/ d[n].strict
    THEN [decl |-> d, out |-> Err("TypeError: immutable binding")]
    ELSE [decl |-> d, out |-> Ok(Unit)]

\* Called on a name the record holds.
Decl_get_binding_value(d, n, strict) ==
    IF d[n].value = NoValue
    THEN [decl |-> d, out |-> Err("ReferenceError: uninitialized binding")]
    ELSE [decl |-> d, out |-> Ok(d[n].value)]

\* Called on a name the record holds.
Decl_delete_binding(d, n) ==
    IF d[n].deletable
    THEN [decl |-> [d EXCEPT ![n] = NoBinding], out |-> Ok(TRUE)]
    ELSE [decl |-> d, out |-> Ok(FALSE)]

(***************************************************************************)
(* FunctionEnvironmentRecord (function_environment_record.rs).             *)
(***************************************************************************)
\* enum BindingStatus
BindingStatus == {"Lexical", "Initialized", "Uninitialized"}

\* A bind_this_value that also binds an arrow function's record.
BindThisValue_BindsLexical(rec, value) ==
    IF rec.this_binding_status = "Initialized"
    THEN [rec |-> rec, out |-> Panic("not yet implemented")]
    ELSE [rec |-> [rec EXCEPT !.this_value = value,
                              !.this_binding_status = "Initialized"],
          out |-> Ok(value)]

\* A bind_this_value that also forgets the home object.
BindThisValue_ClearsHome(rec, value) ==
    CASE rec.this_binding_status = "Lexical" ->
            [rec |-> rec, out |-> Panic("Cannot bind to an arrow function!")]
      [] rec.this_binding_status = "Initialized" ->
            [rec |-> rec, out |-> Panic("not yet implemented")]
      [] rec.this_binding_status = "Uninitialized" ->
            [rec |-> [rec EXCEPT !.this_value = value,
                                 !.this_binding_status = "Initialized",
                                 !.home_object = Undefined],
             out |-> Ok(value)]

\* FunctionEnvironmentRecord::bind_this_value(&mut self, value), on the fields:
\* the record afterwards and the result.
BindThisValue(rec, value) ==
    CASE rec.this_binding_status = "Lexical" ->
            [rec |-> rec, out |-> Panic("Cannot bind to an arrow function!")]
      [] rec.this_binding_status = "Initialized" ->
            \* todo!()
            [rec |-> rec, out |-> Panic("not yet implemented")]
      [] rec.this_binding_status = "Uninitialized" ->
            [rec |-> [rec EXCEPT !.this_value = value,
                                 !.this_binding_status = "Initialized"],
             out |-> Ok(value)]

\* A get_this_binding that hands out the slot of an unbound record.
GetThisBinding_NoUninitCheck(rec) ==
    IF rec.this_binding_status = "Lexical"
    THEN Panic("There is no this for a lexical function record")
    ELSE Ok(rec.this_value)

\* FunctionEnvironmentRecord::get_this_binding(&self, context): the result.
GetThisBinding(rec) ==
    CASE rec.this_binding_status = "Lexical" ->
            Panic("There is no this for a lexical function record")
      [] rec.this_binding_status = "Uninitialized" ->
            Err("ReferenceError: Uninitialised binding for this function")
      [] rec.this_binding_status = "Initialized" ->
            Ok(rec.this_value)

\* A has_this_binding that wants the this value bound already.
HasThisBinding_BoundOnly(rec) == rec.this_binding_status = "Initialized"

\* FunctionEnvironmentRecord::has_this_binding(&self)
HasThisBinding(rec) == rec.this_binding_status # "Lexical"

\* FunctionEnvironmentRecord::has_super_binding(&self)
HasSuperBinding(rec) ==
    IF rec.this_binding_status = "Lexical"
    THEN FALSE
    ELSE rec.home_object # Undefined

\* A constructor that stores the this value without consulting the status.
FunctionEnvironmentRecord_new_StoresThis(f, this, binding_status, new_target) ==
    [rec |-> [this_value |-> IF this = NoValue THEN Undefined ELSE this,
              this_binding_status |-> binding_status,
              function |-> f,
              home_object |-> Undefined,
              new_target |-> new_target],
     out |-> Ok(Unit)]

\* FunctionEnvironmentRecord::new(f, this, outer, binding_status, new_target):
\* `this` is NoValue for None.  The record after construction and, when
\* bind_this_value(v).unwrap() panicked, that panic.
FunctionEnvironmentRecord_new(f, this, binding_status, new_target) ==
    LET func_env == [this_value |-> Undefined,
                     this_binding_status |-> binding_status,
                     function |-> f,
                     home_object |-> Undefined,
                     new_target |-> new_target]
    IN  IF this = NoValue
        THEN [rec |-> func_env, out |-> Ok(Unit)]
        ELSE BindThisValue(func_env, this)

\* What an operation on the Function record leaves in fnLast: the operation,
\* its argument, the this_binding_status it found and its result.
FnLast(op, arg, out) ==
    [op |-> op, arg |-> arg, pre |-> fnRec.this_binding_status, out |-> out]

\* No operation runs on a record a panic has unwound out of.
FnReady == ~fnPanicked

fn_bind_this_value(value) ==
    /\ FnReady
    /\ LET r == BindThisValue(fnRec, value) IN
        /\ fnRec' = r.rec
        /\ fnLast' = FnLast("bind_this_value", value, r.out)
        /\ fnPanicked' = (r.out.kind = "panic")
        /\ fnBound' = IF r.out.kind = "ok" THEN value ELSE fnBound
    /\ UNCHANGED fnDecl

fn_get_this_binding ==
    /\ FnReady
    /\ LET out == GetThisBinding(fnRec) IN
        /\ fnLast' = FnLast("get_this_binding", NoValue, out)
        /\ fnPanicked' = (out.kind = "panic")
    /\ UNCHANGED <<fnRec, fnDecl, fnBound>>

fn_has_this_binding ==
    /\ FnReady
    /\ fnLast' = FnLast("has_this_binding", NoValue, Ok(HasThisBinding(fnRec)))
    /\ UNCHANGED <<fnRec, fnDecl, fnBound, fnPanicked>>

fn_has_super_binding ==
    /\ FnReady
    /\ fnLast' = FnLast("has_super_binding", NoValue, Ok(HasSuperBinding(fnRec)))
    /\ UNCHANGED <<fnRec, fnDecl, fnBound, fnPanicked>>

\* JsObject::prototype_instance(): the [[Prototype]] of an object.
prototype_instance(o) == <<"prototype of", o>>

\* FunctionEnvironmentRecord::get_super_base(&self): the value returned, or
\* the failed assert!(home.is_object()).
GetSuperBase(rec) ==
    LET home == rec.home_object IN
    IF home = Undefined
    THEN Ok(Undefined)
    ELSE IF home \notin Objects
    THEN Panic("assertion failed: home.is_object()")
    ELSE Ok(prototype_instance(home))

fn_get_super_base ==
    /\ FnReady
    /\ fnLast' = FnLast("get_super_base", NoValue, GetSuperBase(fnRec))
    /\ fnPanicked' = (GetSuperBase(fnRec).kind = "panic")
    /\ UNCHANGED <<fnRec, fnDecl, fnBound>>

\* `pub home_object: JsValue`: new() leaves the field undefined and the record
\* has no setter, so the owner of the record stores [[HomeObject]] by
\* assigning the field; its type admits every JsValue.
set_home_object(value) ==
    /\ FnReady
    /\ fnRec' = [fnRec EXCEPT !.home_object = value]
    /\ fnLast' = FnLast("set_home_object", value, Ok(Unit))
    /\ UNCHANGED <<fnDecl, fnBound, fnPanicked>>

\* The EnvironmentRecordTrait operations that delegate to declarative_record.
FnDelegate(op, n, r) ==
    /\ FnReady
    /\ fnDecl' = r.decl
    /\ fnLast' = FnLast(op, n, r.out)
    /\ UNCHANGED <<fnRec, fnBound, fnPanicked>>

fn_has_binding(n) ==
    FnDelegate("has_binding", n, [decl |-> fnDecl, out |-> Ok(Decl_has_binding(fnDecl, n))])

fn_create_mutable_binding(n, deletion, allow_name_reuse) ==
    FnDelegate("create_mutable_binding", n,
               Decl_create_mutable_binding(fnDecl, n, deletion, allow_name_reuse))

fn_create_immutable_binding(n, strict) ==
    FnDelegate("create_immutable_binding", n,
               Decl_create_immutable_binding(fnDecl, n, strict))

fn_initialize_binding(n, v) ==
    /\ Decl_has_binding(fnDecl, n)
    /\ FnDelegate("initialize_binding", n, Decl_initialize_binding(fnDecl, n, v))

fn_set_mutable_binding(n, v, strict) ==
    /\ Decl_has_binding(fnDecl, n)
    /\ FnDelegate("set_mutable_binding", n, Decl_set_mutable_binding(fnDecl, n, v, strict))

fn_get_binding_value(n, strict) ==
    /\ Decl_has_binding(fnDecl, n)
    /\ FnDelegate("get_binding_value", n, Decl_get_binding_value(fnDecl, n, strict))

fn_delete_binding(n) ==
    /\ Decl_has_binding(fnDecl, n)
    /\ FnDelegate("delete_binding", n, Decl_delete_binding(fnDecl, n))

\* A recursive_create_mutable_binding that lets the name be created again.
fn_recursive_create_mutable_binding_AllowsReuse(n, deletion, scope) ==
    FnDelegate("recursive_create_mutable_binding", n,
               Decl_create_mutable_binding(fnDecl, n, deletion, TRUE))

\* FunctionEnvironmentRecord::recursive_create_mutable_binding(name, deletion,
\* _scope): self.create_mutable_binding(name, deletion, false).
fn_recursive_create_mutable_binding(n, deletion, scope) ==
    FnDelegate("recursive_create_mutable_binding", n,
               Decl_create_mutable_binding(fnDecl, n, deletion, FALSE))

\* FunctionEnvironmentRecord::recursive_create_immutable_binding(name,
\* deletion, _scope): self.create_immutable_binding(name, deletion).
fn_recursive_create_immutable_binding(n, deletion, scope) ==
    FnDelegate("recursive_create_immutable_binding", n,
               Decl_create_immutable_binding(fnDecl, n, deletion))

InitFunctionVars ==
    \E this \in Values \cup {NoValue}, binding_status \in BindingStatus,
       new_target \in {Undefined} \cup Objects :
        LET r == FunctionEnvironmentRecord_new("F", this, binding_status, new_target) IN
        /\ fnRec = r.rec
        /\ fnDecl = EmptyDecl
        /\ fnBound = IF this # NoValue /\ r.out.kind = "ok" THEN this ELSE NoValue
        /\ fnLast = [op |-> "new", arg |-> this, pre |-> binding_status, out |-> r.out]
        /\ fnPanicked = (r.out.kind = "panic")

(***************************************************************************)
(* The global object and the ObjectEnvironmentRecord over it.              *)
(***************************************************************************)
NoProp == [present |-> FALSE]

\* A data property: PropertyDescriptor { value, writable, enumerable, configurable }.
Prop(v, w, e, c) ==
    [present |-> TRUE, value |-> v, writable |-> w, enumerable |-> e, configurable |-> c]

\* global_object.has_field(name)
has_field(o, n) == o.props[n].present

\* global_object.is_extensible()
is_extensible(o) == o.extensible

\* Option<bool>: a field a PropertyDescriptor::builder() was given, or not.
Some(b) == <<b>>
None == <<>>

\* PropertyDescriptor::builder().value(v), with the optional fields.
Descriptor(v, w, e, c) ==
    [value |-> v, writable |-> w, enumerable |-> e, configurable |-> c]

\* The engine's defaults for the fields a descriptor leaves out.
CompleteDescriptor(desc) ==
    Prop(desc.value,
         IF desc.writable = None THEN FALSE ELSE desc.writable[1],
         IF desc.enumerable = None THEN FALSE ELSE desc.enumerable[1],
         IF desc.configurable = None THEN FALSE ELSE desc.configurable[1])

\* global_object.insert(name, desc)
insert(o, n, desc) == [o EXCEPT !.props[n] = CompleteDescriptor(desc)]

Obj_has_binding(o, n) == has_field(o, n)

\* Installs a writable, enumerable, (configurable iff deletable) data property.
Obj_create_mutable_binding(o, n, deletion) ==
    [obj |-> insert(o, n, Descriptor(Undefined, Some(TRUE), Some(TRUE), Some(deletion))),
     out |-> Ok(Unit)]

\* The object's property set, with writable/strict semantics.
Obj_set(o, n, v, strict) ==
    IF has_field(o, n)
    THEN IF o.props[n].writable
         THEN [obj |-> [o EXCEPT !.props[n].value = v], out |-> Ok(Unit)]
         ELSE IF strict
         THEN [obj |-> o, out |-> Err("TypeError: read-only property")]
         ELSE [obj |-> o, out |-> Ok(Unit)]
    ELSE IF is_extensible(o)
    THEN [obj |-> insert(o, n, Descriptor(v, Some(TRUE), Some(TRUE), Some(TRUE))),
          out |-> Ok(Unit)]
    ELSE IF strict
    THEN [obj |-> o, out |-> Err("TypeError: object is not extensible")]
    ELSE [obj |-> o, out |-> Ok(Unit)]

\* initialize_binding assigns.
Obj_initialize_binding(o, n, v) == Obj_set(o, n, v, FALSE)

Obj_set_mutable_binding(o, n, v, strict) ==
    IF ~has_field(o, n) /\ strict
    THEN [obj |-> o, out |-> Err("ReferenceError: not defined")]
    ELSE Obj_set(o, n, v, strict)

Obj_get_binding_value(o, n, strict) ==
    IF has_field(o, n)
    THEN [obj |-> o, out |-> Ok(o.props[n].value)]
    ELSE IF strict
    THEN [obj |-> o, out |-> Err("ReferenceError: not defined")]
    ELSE [obj |-> o, out |-> Ok(Undefined)]

\* Deletes the property; a non-configurable property stays and the result is false.
Obj_delete_binding(o, n) ==
    IF has_field(o, n) /\ ~o.props[n].configurable
    THEN [obj |-> o, out |-> Ok(FALSE)]
    ELSE [obj |-> [o EXCEPT !.props[n] = NoProp], out |-> Ok(TRUE)]

(***************************************************************************)
(* GlobalEnvironmentRecord (global_environment_record.rs).                 *)
(***************************************************************************)
\* GlobalEnvironmentRecord::has_var_declaration
has_var_declaration(n) == n \in var_names

\* GlobalEnvironmentRecord::has_lexical_declaration
has_lexical_declaration(n) == Decl_has_binding(gDecl, n)

\* What an operation on the Global record leaves in gLast: the operation, the
\* name, its other argument, the half it went to, its result, and the number
\* of operations the record has served.
GLast(op, n, arg, half, out) ==
    [op |-> op, name |-> n, arg |-> arg, half |-> half, out |-> out,
     step |-> IF op = "new" THEN 0 ELSE gLast.step + 1]

\* No operation runs on a record a panic has unwound out of; the model follows
\* a record for MaxOps operations.
GReady == ~gPanicked /\ gLast.step < MaxOps

\* The rest of an operation that went to declarative_record with result r.
ToDeclarative(op, n, arg, r) ==
    /\ gDecl' = r.decl
    /\ gLast' = GLast(op, n, arg, "declarative", r.out)
    /\ UNCHANGED <<gObj, var_names, gPanicked, global_this_binding>>

\* The rest of an operation that went to object_record with result r.
ToObject(op, n, arg, r) ==
    /\ gObj' = r.obj
    /\ gLast' = GLast(op, n, arg, "object", r.out)
    /\ UNCHANGED <<gDecl, var_names, gPanicked, global_this_binding>>

\* A query of the Global record: it reads the record and changes nothing
\* but what the caller last saw.
GQuery(op, n, result) ==
    /\ GReady
    /\ gLast' = GLast(op, n, NoValue, "object", Ok(result))
    /\ UNCHANGED <<gObj, gDecl, var_names, gPanicked, global_this_binding>>

\* The object `global` that new() puts behind object_record.bindings, and the
\* objects new() may be given as this_value.
GlobalObject == "globalObj"

ThisObjects == {GlobalObject, "obj1"}

\* GlobalEnvironmentRecord::has_this_binding
Global_has_this_binding == TRUE

\* A get_this_binding that hands out the binding object of object_record.
Global_get_this_binding_BindingObject == Ok(GlobalObject)

\* GlobalEnvironmentRecord::get_this_binding
Global_get_this_binding == Ok(global_this_binding)

\* GlobalEnvironmentRecord::has_super_binding
Global_has_super_binding == FALSE

g_has_this_binding == GQuery("has_this_binding", NoValue, Global_has_this_binding)

g_get_this_binding ==
    /\ GReady
    /\ gLast' = GLast("get_this_binding", NoValue, NoValue, "object", Global_get_this_binding)
    /\ UNCHANGED <<gObj, gDecl, var_names, gPanicked, global_this_binding>>

g_has_super_binding == GQuery("has_super_binding", NoValue, Global_has_super_binding)

\* A has_restricted_global_property that counts every property as restricted.
has_restricted_global_property_AnyProperty(n) == gObj.props[n].present

\* GlobalEnvironmentRecord::has_restricted_global_property
has_restricted_global_property(n) ==
    LET existing_prop == gObj.props[n] IN
    IF existing_prop.present
    THEN IF existing_prop.configurable THEN FALSE ELSE TRUE
    ELSE FALSE

\* A can_declare_global_var that asks only for extensibility.
can_declare_global_var_ExtensibleOnly(n) == is_extensible(gObj)

\* GlobalEnvironmentRecord::can_declare_global_var
can_declare_global_var(n) ==
    LET has_property == has_field(gObj, n) IN
    IF has_property THEN TRUE ELSE is_extensible(gObj)

\* A can_declare_global_function that does not ask for enumerability.
can_declare_global_function_WritableOnly(n) ==
    LET existing_prop == gObj.props[n] IN
    IF existing_prop.present
    THEN existing_prop.configurable \/ existing_prop.writable
    ELSE is_extensible(gObj)

\* GlobalEnvironmentRecord::can_declare_global_function
can_declare_global_function(n) ==
    LET existing_prop == gObj.props[n] IN
    IF existing_prop.present
    THEN \/ existing_prop.configurable
         \/ (existing_prop.enumerable /\ existing_prop.writable)
    ELSE is_extensible(gObj)

g_has_restricted_global_property(n) ==
    GQuery("has_restricted_global_property", n, has_restricted_global_property(n))

g_can_declare_global_var(n) ==
    GQuery("can_declare_global_var", n, can_declare_global_var(n))

g_can_declare_global_function(n) ==
    GQuery("can_declare_global_function", n, can_declare_global_function(n))

\* A create_global_var_binding that does not look at the global object first.
create_global_var_binding_Unchecked(n, deletion) ==
    /\ GReady
    /\ gObj' = Obj_initialize_binding(
                   Obj_create_mutable_binding(gObj, n, deletion).obj, n, Undefined).obj
    /\ var_names' = var_names \cup {n}
    /\ gLast' = GLast("create_global_var_binding", n, deletion, "object", Ok(Unit))
    /\ UNCHANGED <<gDecl, gPanicked, global_this_binding>>

\* GlobalEnvironmentRecord::create_global_var_binding
create_global_var_binding(n, deletion) ==
    /\ GReady
    /\ LET has_property == has_field(gObj, n)
           extensible == is_extensible(gObj)
       IN  IF ~has_property /\ extensible
           THEN gObj' = Obj_initialize_binding(
                            Obj_create_mutable_binding(gObj, n, deletion).obj,
                            n, Undefined).obj
           ELSE gObj' = gObj
    /\ var_names' = IF n \notin var_names THEN var_names \cup {n} ELSE var_names
    /\ gLast' = GLast("create_global_var_binding", n, deletion, "object", Ok(Unit))
    /\ UNCHANGED <<gDecl, gPanicked, global_this_binding>>

\* A create_global_function_binding that also records the name as var-declared.
create_global_function_binding_Records(n, value, deletion) ==
    /\ GReady
    /\ gObj' = insert(gObj, n, Descriptor(value, Some(TRUE), Some(TRUE), Some(deletion)))
    /\ var_names' = var_names \cup {n}
    /\ gLast' = GLast("create_global_function_binding", n, <<value, deletion>>, "object", Ok(Unit))
    /\ UNCHANGED <<gDecl, gPanicked, global_this_binding>>

\* A create_global_function_binding that always installs the explicit
\* descriptor, whatever property the name had.
create_global_function_binding_AlwaysExplicit(n, value, deletion) ==
    /\ GReady
    /\ gObj' = insert(gObj, n, Descriptor(value, Some(TRUE), Some(TRUE), Some(deletion)))
    /\ gLast' = GLast("create_global_function_binding", n, <<value, deletion>>, "object", Ok(Unit))
    /\ UNCHANGED <<gDecl, var_names, gPanicked, global_this_binding>>

\* GlobalEnvironmentRecord::create_global_function_binding
create_global_function_binding(n, value, deletion) ==
    /\ GReady
    /\ LET existing_prop == gObj.props[n]
           desc == IF existing_prop.present /\ existing_prop.configurable
                   THEN Descriptor(value, None, None, None)
                   ELSE IF existing_prop.present
                   THEN Descriptor(value, Some(TRUE), Some(TRUE), Some(deletion))
                   ELSE Descriptor(value, None, None, None)
       IN  gObj' = insert(gObj, n, desc)
    /\ gLast' = GLast("create_global_function_binding", n, <<value, deletion>>, "object", Ok(Unit))
    /\ UNCHANGED <<gDecl, var_names, gPanicked, global_this_binding>>

\* GlobalEnvironmentRecord::has_binding
g_has_binding(n) ==
    /\ GReady
    /\ IF Decl_has_binding(gDecl, n)
       THEN gLast' = GLast("has_binding", n, NoValue, "declarative", Ok(TRUE))
       ELSE gLast' = GLast("has_binding", n, NoValue, "object", Ok(Obj_has_binding(gObj, n)))
    /\ UNCHANGED <<gDecl, gObj, var_names, gPanicked, global_this_binding>>

\* GlobalEnvironmentRecord::create_mutable_binding
g_create_mutable_binding(n, deletion, allow_name_reuse) ==
    /\ GReady
    /\ IF ~allow_name_reuse /\ Decl_has_binding(gDecl, n)
       THEN ToDeclarative("create_mutable_binding", n, allow_name_reuse,
                          [decl |-> gDecl,
                           out |-> Err("TypeError: Binding already exists")])
       ELSE ToDeclarative("create_mutable_binding", n, allow_name_reuse,
                          Decl_create_mutable_binding(gDecl, n, deletion, allow_name_reuse))

\* A create_immutable_binding that replaces a binding the Declarative half
\* already holds.
g_create_immutable_binding_Replaces(n, strict) ==
    /\ GReady
    /\ ToDeclarative("create_immutable_binding", n, strict,
                     [decl |-> [gDecl EXCEPT ![n] = Binding(NoValue, FALSE, FALSE, strict)],
                      out |-> Ok(Unit)])

\* GlobalEnvironmentRecord::create_immutable_binding
g_create_immutable_binding(n, strict) ==
    /\ GReady
    /\ IF Decl_has_binding(gDecl, n)
       THEN ToDeclarative("create_immutable_binding", n, strict,
                          [decl |-> gDecl,
                           out |-> Err("TypeError: Binding already exists")])
       ELSE ToDeclarative("create_immutable_binding", n, strict,
                          Decl_create_immutable_binding(gDecl, n, strict))

\* GlobalEnvironmentRecord::initialize_binding
g_initialize_binding(n, value) ==
    /\ GReady
    /\ IF Decl_has_binding(gDecl, n)
       THEN ToDeclarative("initialize_binding", n, value,
                          Decl_initialize_binding(gDecl, n, value))
       ELSE IF ~Obj_has_binding(gObj, n)
       THEN \* assert!(self.object_record.has_binding(name))
            /\ gLast' = GLast("initialize_binding", n, value, "object",
                              Panic("Binding must be in object_record"))
            /\ gPanicked' = TRUE
            /\ UNCHANGED <<gDecl, gObj, var_names, global_this_binding>>
       ELSE ToObject("initialize_binding", n, value,
                     Obj_initialize_binding(gObj, n, value))

\* GlobalEnvironmentRecord::set_mutable_binding
g_set_mutable_binding(n, value, strict) ==
    /\ GReady
    /\ IF Decl_has_binding(gDecl, n)
       THEN ToDeclarative("set_mutable_binding", n, value,
                          Decl_set_mutable_binding(gDecl, n, value, strict))
       ELSE ToObject("set_mutable_binding", n, value,
                     Obj_set_mutable_binding(gObj, n, value, strict))

\* A get_binding_value that asks the global object first.
g_get_binding_value_ObjectFirst(n, strict) ==
    /\ GReady
    /\ IF Obj_has_binding(gObj, n) \/ ~Decl_has_binding(gDecl, n)
       THEN ToObject("get_binding_value", n, strict,
                     Obj_get_binding_value(gObj, n, strict))
       ELSE ToDeclarative("get_binding_value", n, strict,
                          Decl_get_binding_value(gDecl, n, strict))

\* GlobalEnvironmentRecord::get_binding_value
g_get_binding_value(n, strict) ==
    /\ GReady
    /\ IF Decl_has_binding(gDecl, n)
       THEN ToDeclarative("get_binding_value", n, strict,
                          Decl_get_binding_value(gDecl, n, strict))
       ELSE ToObject("get_binding_value", n, strict,
                     Obj_get_binding_value(gObj, n, strict))

\* A delete_binding that forgets the var name whether or not the property went.
g_delete_binding_AlwaysForgets(n) ==
    /\ GReady
    /\ IF Decl_has_binding(gDecl, n)
       THEN ToDeclarative("delete_binding", n, NoValue, Decl_delete_binding(gDecl, n))
       ELSE /\ gObj' = Obj_delete_binding(gObj, n).obj
            /\ var_names' = var_names \ {n}
            /\ gLast' = GLast("delete_binding", n, NoValue, "object", Ok(TRUE))
            /\ UNCHANGED <<gDecl, gPanicked, global_this_binding>>

\* GlobalEnvironmentRecord::delete_binding
g_delete_binding(n) ==
    /\ GReady
    /\ IF Decl_has_binding(gDecl, n)
       THEN ToDeclarative("delete_binding", n, NoValue, Decl_delete_binding(gDecl, n))
       ELSE IF has_field(gObj, n)
       THEN LET r == Obj_delete_binding(gObj, n)
                status == r.out.val
            IN  /\ gObj' = r.obj
                /\ var_names' = IF status /\ n \in var_names
                                THEN var_names \ {n}
                                ELSE var_names
                /\ gLast' = GLast("delete_binding", n, NoValue, "object",
                                  IF status /\ n \in var_names
                                  THEN Ok(status)
                                  ELSE Ok(TRUE))
                /\ UNCHANGED <<gDecl, gPanicked, global_this_binding>>
       ELSE /\ gLast' = GLast("delete_binding", n, NoValue, "object", Ok(TRUE))
            /\ UNCHANGED <<gDecl, gObj, var_names, gPanicked, global_this_binding>>

\* GlobalEnvironmentRecord::recursive_create_mutable_binding(name, deletion,
\* _scope): self.create_mutable_binding(name, deletion, false).
g_recursive_create_mutable_binding(n, deletion, scope) ==
    /\ GReady
    /\ IF Decl_has_binding(gDecl, n)
       THEN ToDeclarative("recursive_create_mutable_binding", n, deletion,
                          [decl |-> gDecl,
                           out |-> Err("TypeError: Binding already exists")])
       ELSE ToDeclarative("recursive_create_mutable_binding", n, deletion,
                          Decl_create_mutable_binding(gDecl, n, deletion, FALSE))

\* GlobalEnvironmentRecord::recursive_create_immutable_binding(name, deletion,
\* _scope): self.create_immutable_binding(name, deletion).
g_recursive_create_immutable_binding(n, deletion, scope) ==
    /\ GReady
    /\ IF Decl_has_binding(gDecl, n)
       THEN ToDeclarative("recursive_create_immutable_binding", n, deletion,
                          [decl |-> gDecl,
                           out |-> Err("TypeError: Binding already exists")])
       ELSE ToDeclarative("recursive_create_immutable_binding", n, deletion,
                          Decl_create_immutable_binding(gDecl, n, deletion))

\* GlobalEnvironmentRecord::recursive_set_mutable_binding(name, value, strict):
\* self.set_mutable_binding(name, value, strict).
g_recursive_set_mutable_binding(n, value, strict) ==
    /\ GReady
    /\ IF Decl_has_binding(gDecl, n)
       THEN ToDeclarative("recursive_set_mutable_binding", n, value,
                          Decl_set_mutable_binding(gDecl, n, value, strict))
       ELSE ToObject("recursive_set_mutable_binding", n, value,
                     Obj_set_mutable_binding(gObj, n, value, strict))

\* GlobalEnvironmentRecord::recursive_initialize_binding(name, value):
\* self.initialize_binding(name, value).
g_recursive_initialize_binding(n, value) ==
    /\ GReady
    /\ IF Decl_has_binding(gDecl, n)
       THEN ToDeclarative("recursive_initialize_binding", n, value,
                          Decl_initialize_binding(gDecl, n, value))
       ELSE IF ~Obj_has_binding(gObj, n)
       THEN /\ gLast' = GLast("recursive_initialize_binding", n, value, "object",
                              Panic("Binding must be in object_record"))
            /\ gPanicked' = TRUE
            /\ UNCHANGED <<gDecl, gObj, var_names, global_this_binding>>
       ELSE ToObject("recursive_initialize_binding", n, value,
                     Obj_initialize_binding(gObj, n, value))

\* The global objects a Global record is constructed over: each name absent,
\* or a property the realm already has: restricted and read-only (like NaN),
\* writable and configurable (like Math), or writable and not configurable.
InitialProps ==
    {NoProp, Prop("v1", FALSE, FALSE, FALSE), Prop("v1", TRUE, FALSE, TRUE),
     Prop("v1", TRUE, FALSE, FALSE)}

\* GlobalEnvironmentRecord::new(global, this_value): this_value is the global
\* object itself or another object.
InitGlobalVars ==
    /\ gObj \in [props : [Names -> InitialProps], extensible : BOOLEAN]
    /\ gDecl = EmptyDecl
    /\ var_names = {}
    /\ global_this_binding \in ThisObjects
    /\ gLast = GLast("new", NoValue, global_this_binding, "object", Ok(Unit))
    /\ gPanicked = FALSE

IdleGlobalVars ==
    /\ gObj = [props |-> [n \in Names |-> NoProp], extensible |-> TRUE]
    /\ gDecl = EmptyDecl
    /\ var_names = {}
    /\ global_this_binding = GlobalObject
    /\ gLast = GLast("new", NoValue, GlobalObject, "object", Ok(Unit))
    /\ gPanicked = FALSE

(***************************************************************************)
(* JsString::index_of, a function of the two texts and the start index.    *)
(* Here a text is its sequence of chars (Unicode scalar values), which is  *)
(* what the UTF-8 bytes of a &str denote.                                  *)
(***************************************************************************)
MaxSelfLen == 3

MaxNeedleLen == 2

\* 'a', 'b', U+FFFD and the astral U+1D306.
Chars == {97, 98, 65533, 119558}

RECURSIVE CharSeqsUpTo(_)
CharSeqsUpTo(n) ==
    IF n = 0 THEN {<<>>}
    ELSE LET shorter == CharSeqsUpTo(n - 1) IN
         shorter \cup {Append(t, ch) : t \in {u \in shorter : Len(u) = n - 1}, ch \in Chars}

\* std char::REPLACEMENT_CHARACTER, what String::from_utf16_lossy puts in the
\* place of an unpaired surrogate.
REPLACEMENT_CHARACTER == 65533

is_high_surrogate(u) == u >= 55296 /\ u <= 56319

is_low_surrogate(u) == u >= 56320 /\ u <= 57343

\* str::encode_utf16: one code unit for a char of the Basic Multilingual
\* Plane, a surrogate pair for any other.
RECURSIVE encode_utf16(_)
encode_utf16(s) ==
    IF s = <<>> THEN <<>>
    ELSE LET ch == Head(s) IN
         (IF ch < 65536
          THEN <<ch>>
          ELSE <<55296 + ((ch - 65536) \div 1024), 56320 + ((ch - 65536) % 1024)>>)
         \o encode_utf16(Tail(s))

\* String::from_utf16_lossy: a high surrogate followed by a low one is the
\* char they encode, any other surrogate is replaced, every other unit is
\* its own char.
RECURSIVE from_utf16_lossy(_)
from_utf16_lossy(v) ==
    IF v = <<>> THEN <<>>
    ELSE LET u == Head(v) IN
         IF ~is_high_surrogate(u) /\ ~is_low_surrogate(u)
         THEN <<u>> \o from_utf16_lossy(Tail(v))
         ELSE IF is_high_surrogate(u) /\ Len(v) >= 2 /\ is_low_surrogate(v[2])
         THEN <<65536 + (u - 55296) * 1024 + (v[2] - 56320)>>
              \o from_utf16_lossy(Tail(Tail(v)))
         ELSE <<REPLACEMENT_CHARACTER>> \o from_utf16_lossy(Tail(v))

\* .skip(i).take(n).collect::<Vec<u16>>()
skip_take(v, i, n) ==
    SubSeq(v, i + 1, IF i + n <= Len(v) THEN i + n ELSE Len(v))

\* The loop of index_of from index i on.
RECURSIVE index_of_from(_, _, _)
index_of_from(self, search_value, i) ==
    LET len == Len(encode_utf16(self))
        search_len == Len(encode_utf16(search_value))
    IN  IF i > len THEN None
        ELSE IF i > len - search_len THEN None
        ELSE LET candidate ==
                     from_utf16_lossy(skip_take(encode_utf16(self), i, search_len))
             IN  IF candidate = search_value
                 THEN Some(i)
                 ELSE index_of_from(self, search_value, i + 1)

\* JsString::index_of(&self, search_value, from_index) -> Option<usize>
index_of(self, search_value, from_index) ==
    LET len == Len(encode_utf16(self)) IN
    IF search_value = <<>> /\ from_index <= len
    THEN Some(from_index)
    ELSE index_of_from(self, search_value, from_index)

\* A call about to be made: the function, its arguments, no result yet.
(***************************************************************************)
(* string_to_number.  A text is a sequence of characters, each a string    *)
(* of one character (or the name of a code point); an f64 is a record: NaN,*)
(* an infinity, or the finite decimal mant * 10^exp with its sign, the     *)
(* mantissa written with no trailing zero.                                 *)
(***************************************************************************)
F64(kind, neg, mant, exp) == [kind |-> kind, neg |-> neg, mant |-> mant, exp |-> exp]

NAN == F64("nan", FALSE, 0, 0)

INFINITY == F64("inf", FALSE, 0, 0)

NEG_INFINITY == F64("inf", TRUE, 0, 0)

\* The decimal mant * 10^exp rounded to an f64, for a mantissa below 10^8
\* with at most two significant digits and a value that is not subnormal:
\* f64::MAX is 1.7976931348623157e308, so 1.7e308 is finite and 1.8e308
\* rounds to infinity.
ToF64(neg, mant, exp) ==
    LET zeros == CHOOSE k \in 0..8 :
                    /\ mant % (10 ^ k) = 0
                    /\ mant = 0 \/ mant % (10 ^ (k + 1)) # 0
        m == mant \div (10 ^ zeros)
        digits == CHOOSE d \in 1..9 : m < 10 ^ d /\ (d = 1 \/ m >= 10 ^ (d - 1))
        order == digits - 1 + exp + zeros
        lead2 == IF m < 10 THEN m * 10 ELSE m
    IN  IF mant = 0 THEN F64("finite", neg, 0, 0)
        ELSE IF order > 308 \/ (order = 308 /\ lead2 >= 18) THEN F64("inf", neg, 0, 0)
        ELSE F64("finite", neg, m, exp + zeros)

\* builtins::string::is_trimmable_whitespace: space, tab, the newline
\* family, no-break space, BOM, line and paragraph separators.
is_trimmable_whitespace(c) ==
    c \in {" ", "U+0009", "U+000A", "U+000B", "U+000C", "U+000D", "U+00A0",
           "U+FEFF", "U+2028", "U+2029"}

\* str::trim_matches(is_trimmable_whitespace): what lies between the first
\* and the last character that is not white space.
trim_matches(s) ==
    LET kept == {i \in 1..Len(s) : ~is_trimmable_whitespace(s[i])} IN
    IF kept = {} THEN <<>>
    ELSE SubSeq(s, CHOOSE i \in kept : \A j \in kept : i <= j,
                   CHOOSE i \in kept : \A j \in kept : i >= j)

AsciiLetters ==
    [upper |-> <<"A", "B", "C", "D", "E", "F", "G", "H", "I", "J", "K", "L", "M",
                 "N", "O", "P", "Q", "R", "S", "T", "U", "V", "W", "X", "Y", "Z">>,
     lower |-> <<"a", "b", "c", "d", "e", "f", "g", "h", "i", "j", "k", "l", "m",
                 "n", "o", "p", "q", "r", "s", "t", "u", "v", "w", "x", "y", "z">>]

to_ascii_lowercase(c) ==
    IF \E i \in DOMAIN AsciiLetters.upper : AsciiLetters.upper[i] = c
    THEN AsciiLetters.lower[CHOOSE i \in DOMAIN AsciiLetters.upper : AsciiLetters.upper[i] = c]
    ELSE c

\* fast_float's eq_ignore_case: s begins with the lower-case word w, in any
\* mix of cases.
eq_ignore_case(s, w) ==
    /\ Len(s) >= Len(w)
    /\ \A i \in 1..Len(w) : to_ascii_lowercase(s[i]) = w[i]

\* The number of decimal digits of s from position i on.
RECURSIVE digit_run(_, _)
digit_run(s, i) ==
    IF i <= Len(s) /\ s[i] \in {"0", "1", "2", "3", "4", "5", "6", "7", "8", "9"}
    THEN 1 + digit_run(s, i + 1)
    ELSE 0

\* The value of the n digits of s from position i on.
RECURSIVE parse_digits(_, _, _)
parse_digits(s, i, n) ==
    LET digits == <<"0", "1", "2", "3", "4", "5", "6", "7", "8", "9">> IN
    IF n = 0 THEN 0
    ELSE 10 * parse_digits(s, i, n - 1)
            + (CHOOSE d \in DOMAIN digits : digits[d] = s[i + n - 1]) - 1

\* fast_float's parse_number on a text without a decimal point: an optional
\* sign, digits, and an exponent that is taken only when it has digits.
\* Gives the number read and the count of characters consumed, or none.
parse_number(s) ==
    LET neg == s[1] = "-"
        p0 == IF s[1] \in {"-", "+"} THEN 2 ELSE 1
        n == digit_run(s, p0)
        p1 == p0 + n
        q0 == IF p1 + 1 <= Len(s) /\ s[p1 + 1] \in {"-", "+"} THEN p1 + 2 ELSE p1 + 1
        m == digit_run(s, q0)
        eneg == p1 + 1 <= Len(s) /\ s[p1 + 1] = "-"
        e == parse_digits(s, q0, m)
    IN  IF n = 0 THEN None
        ELSE IF p1 <= Len(s) /\ s[p1] \in {"e", "E"} /\ m > 0
        THEN Some([value |-> ToF64(neg, parse_digits(s, p0, n), IF eneg THEN 0 - e ELSE e),
                   len |-> q0 + m - 1])
        ELSE Some([value |-> ToF64(neg, parse_digits(s, p0, n), 0), len |-> p1 - 1])

\* fast_float's parse_inf_nan: nan, inf and infinity in any mix of cases,
\* with an optional sign; the value and the count of characters consumed.
parse_inf_nan(s) ==
    LET inf == <<"i", "n", "f">>
        nan == <<"n", "a", "n">>
        parse_inf_rest(r) ==
            IF Len(r) >= 8 /\ eq_ignore_case(SubSeq(r, 4, Len(r)), <<"i", "n", "i", "t", "y">>)
            THEN 8 ELSE 3
    IN  IF Len(s) < 3 THEN None
        ELSE IF eq_ignore_case(s, nan) THEN Some([value |-> NAN, len |-> 3])
        ELSE IF eq_ignore_case(s, inf)
        THEN Some([value |-> INFINITY, len |-> parse_inf_rest(s)])
        ELSE IF Len(s) >= 4 /\ s[1] \in {"+", "-"}
        THEN IF eq_ignore_case(Tail(s), nan) THEN Some([value |-> NAN, len |-> 4])
             ELSE IF eq_ignore_case(Tail(s), inf)
             THEN Some([value |-> IF s[1] = "-" THEN NEG_INFINITY ELSE INFINITY,
                        len |-> 1 + parse_inf_rest(Tail(s))])
             ELSE None
        ELSE None

\* fast_float::parse: the whole text has to be one number.
fast_float_parse(s) ==
    IF s = <<>> THEN Err("error while parsing a float")
    ELSE LET r == IF parse_number(s) # None THEN parse_number(s) ELSE parse_inf_nan(s) IN
         IF r # None /\ r[1].len = Len(s)
         THEN Ok(r[1].value)
         ELSE Err("error while parsing a float")

Infinity == <<"I", "n", "f", "i", "n", "i", "t", "y">>

\* JsString::string_to_number(&self)
string_to_number(self) ==
    LET string == trim_matches(self)
        \* .chars().take(4).collect::<String>().to_ascii_lowercase()
        first4 == [i \in 1..(IF Len(string) < 4 THEN Len(string) ELSE 4) |->
                        to_ascii_lowercase(string[i])]
    IN  IF string = <<>> THEN F64("finite", FALSE, 0, 0)
        ELSE IF string \in {Infinity, <<"+">> \o Infinity} THEN INFINITY
        ELSE IF string = <<"-">> \o Infinity THEN NEG_INFINITY
        ELSE IF first4 \in {<<"i", "n", "f">>, <<"+", "i", "n", "f">>, <<"-", "i", "n", "f">>,
                            <<"n", "a", "n">>, <<"+", "n", "a", "n">>, <<"-", "n", "a", "n">>}
        THEN NAN
        ELSE LET parsed == fast_float_parse(string) IN
             IF parsed.kind = "ok" THEN parsed.val ELSE NAN

\* Every way of writing the lower-case word w in a mix of cases.
RECURSIVE Cased(_)
Cased(w) ==
    IF w = <<>> THEN {<<>>}
    ELSE {<<ch>> \o r : ch \in {w[1]} \cup {u \in {AsciiLetters.upper[i] : i \in DOMAIN AsciiLetters.upper} :
                                                to_ascii_lowercase(u) = w[1]},
                        r \in Cased(Tail(w))}

RECURSIVE RunsUpTo(_, _)
RunsUpTo(alphabet, n) ==
    IF n = 0 THEN {<<>>}
    ELSE LET shorter == RunsUpTo(alphabet, n - 1) IN
         shorter \cup {Append(t, ch) : t \in {u \in shorter : Len(u) = n - 1}, ch \in alphabet}

\* The texts string_to_number is called on: a word (a beginning of
\* "infinity" or of "nan" in every mix of cases, then up to MaxTail more
\* characters) or a numeral, with an optional sign, between up to MaxPad
\* characters of white space on each side; and the texts of the examples.
NumberTexts ==
    LET Prefixes(w) == {SubSeq(w, 1, n) : n \in 0..Len(w)}
        words == UNION {Cased(p) : p \in Prefixes(<<"i", "n", "f", "i", "n", "i", "t", "y">>)
                                            \cup Prefixes(<<"n", "a", "n">>)}
        numerals ==
            {<<"0">>, <<"4", "2">>, <<"4", "2", "e">>, <<"4", "2", "e", "-", "1">>,
             <<"4", "2", "0", "E", "-", "1">>, <<"1", "e", "3", "0", "8">>,
             <<"1", "e", "3", "0", "9">>, <<"1", "7", "e", "3", "0", "7">>,
             <<"1", "8", "e", "3", "0", "7">>, <<"0", "x", "F", "F">>, <<"a", "b", "c">>}
        examples == {<<>>, <<" ", " ", "4", "2", " ">>, Infinity, <<"-">> \o Infinity,
                     <<"i", "n", "f">>, <<"0", "x", "F", "F">>, <<"a", "b", "c">>}
        cores == {w \o t : w \in words, t \in RunsUpTo({"x"}, MaxTail)} \cup numerals
        signed == {sg \o c : sg \in {<<>>, <<"+">>, <<"-">>}, c \in cores}
        pads == RunsUpTo({" ", "U+FEFF"}, MaxPad)
    IN  {l \o c \o r : l \in pads, c \in signed, r \in pads} \cup examples

(***************************************************************************)
(* Error.prototype.toString (builtins/error/mod.rs).  A value is a record  *)
(* of its type and, for a string, its text; an object carries the values   *)
(* of its name and message properties, undefined for a property it lacks.  *)
(***************************************************************************)
\* JsValue::to_string(context): a string converts to itself, undefined to
\* "undefined"; a symbol does not convert.
JsValue_to_string(value) ==
    CASE value.type = "string" -> Ok(value.text)
      [] value.type = "undefined" ->
            Ok(<<"u", "n", "d", "e", "f", "i", "n", "e", "d">>)
      [] value.type = "symbol" -> Err("TypeError: can't convert symbol to string")

\* A toString that joins name and message whatever they are.
Error_to_string_AlwaysJoins(this) ==
    IF this.type # "object"
    THEN Err("TypeError: 'this' is not an Object")
    ELSE LET name == IF this.name.type = "undefined"
                     THEN Ok(<<"E", "r", "r", "o", "r">>)
                     ELSE JsValue_to_string(this.name)
             message == IF this.message.type = "undefined"
                        THEN Ok(<<>>)
                        ELSE JsValue_to_string(this.message)
         IN  IF name.kind # "ok" THEN name
             ELSE IF message.kind # "ok" THEN message
             ELSE Ok([type |-> "string", text |-> name.val \o <<":", " ">> \o message.val])

\* Error::to_string(this, _, context)
Error_to_string(this) ==
    IF this.type # "object"
    THEN Err("TypeError: 'this' is not an Object")
    ELSE LET name == IF this.name.type = "undefined"
                     THEN Ok(<<"E", "r", "r", "o", "r">>)
                     ELSE JsValue_to_string(this.name)
             message == IF this.message.type = "undefined"
                        THEN Ok(<<>>)
                        ELSE JsValue_to_string(this.message)
         IN  IF name.kind # "ok" THEN name
             ELSE IF message.kind # "ok" THEN message
             ELSE IF name.val = <<>> THEN Ok([type |-> "string", text |-> message.val])
             ELSE IF message.val = <<>> THEN Ok([type |-> "string", text |-> name.val])
             ELSE Ok([type |-> "string", text |-> name.val \o <<":", " ">> \o message.val])

\* The values toString is called on: undefined, a string, and objects whose
\* name and message are each missing, a string of up to MaxTextLen
\* characters, or a symbol.
ErrorThisValues ==
    LET strings == {[type |-> "string", text |-> t] : t \in RunsUpTo({"a", ":"}, MaxTextLen)}
        props == strings \cup {[type |-> "undefined", text |-> <<>>],
                               [type |-> "symbol", text |-> <<>>]}
    IN  {[type |-> "undefined", text |-> <<>>]} \cup strings
            \cup {[type |-> "object", name |-> n, message |-> m] : n \in props, m \in props}

Pending(fn, args) == [fn |-> fn, args |-> args, done |-> FALSE, out |-> None]

IdleCallsVars == call = [fn |-> "none", args |-> <<>>, done |-> TRUE, out |-> None]

\* from_index runs past the longest text's length in code units.
InitCallsVars ==
    \/ \E self \in CharSeqsUpTo(MaxSelfLen), search_value \in CharSeqsUpTo(MaxNeedleLen),
          from_index \in 0..(2 * MaxSelfLen + 1) :
            call = Pending("index_of", <<self, search_value, from_index>>)
    \/ \E self \in NumberTexts : call = Pending("string_to_number", <<self>>)
    \/ \E this \in ErrorThisValues : call = Pending("Error_to_string", <<this>>)

call_index_of ==
    /\ call.fn = "index_of"
    /\ ~call.done
    /\ call' = [call EXCEPT !.done = TRUE,
                            !.out = index_of(call.args[1], call.args[2], call.args[3])]

call_string_to_number ==
    /\ call.fn = "string_to_number"
    /\ ~call.done
    /\ call' = [call EXCEPT !.done = TRUE, !.out = string_to_number(call.args[1])]

call_Error_to_string ==
    /\ call.fn = "Error_to_string"
    /\ ~call.done
    /\ call' = [call EXCEPT !.done = TRUE, !.out = Error_to_string(call.args[1])]

(***************************************************************************)
(* Specifications.                                                         *)
(***************************************************************************)
\* While one component runs, the others sit in one constructed state.
IdleFunctionVars ==
    /\ fnRec = FunctionEnvironmentRecord_new("F", NoValue, "Uninitialized", Undefined).rec
    /\ fnDecl = EmptyDecl
    /\ fnBound = NoValue
    /\ fnLast = [op |-> "new", arg |-> NoValue, pre |-> "Uninitialized", out |-> Ok(Unit)]
    /\ fnPanicked = FALSE

InitString == InitStringVars /\ IdleFunctionVars /\ IdleGlobalVars /\ IdleCallsVars

NextString ==
    \/ \E h \in HandleIds, s \in Texts : JsString_new(h, s) /\ UNCHANGED <<varsFunction, varsGlobal, varsCalls>>
    \/ \E x \in HandleIds, y \in HandleIds : Clone(x, y) /\ UNCHANGED <<varsFunction, varsGlobal, varsCalls>>
    \/ \E h \in HandleIds : Drop(h) /\ UNCHANGED <<varsFunction, varsGlobal, varsCalls>>
    \/ \E x \in HandleIds, y \in HandleIds :
        Compare(x, y) /\ UNCHANGED <<varsFunction, varsGlobal, varsCalls>>
    \/ \E x \in HandleIds : Hash(x) /\ UNCHANGED <<varsFunction, varsGlobal, varsCalls>>

SpecString == InitString /\ [][NextString]_vars

\* The handles under construction, sharing and release, with concat.
InitConcat == InitStringVars /\ IdleFunctionVars /\ IdleGlobalVars /\ IdleCallsVars

NextConcat ==
    \/ \E h \in HandleIds, s \in Texts : JsString_new(h, s) /\ UNCHANGED <<varsFunction, varsGlobal, varsCalls>>
    \/ \E x \in HandleIds, y \in HandleIds : Clone(x, y) /\ UNCHANGED <<varsFunction, varsGlobal, varsCalls>>
    \/ \E h \in HandleIds : Drop(h) /\ UNCHANGED <<varsFunction, varsGlobal, varsCalls>>
    \/ \E r \in HandleIds, x \in ConcatArgs, y \in ConcatArgs :
        JsString_concat(r, x, y) /\ UNCHANGED <<varsFunction, varsGlobal, varsCalls>>
    \/ \E x \in HandleIds, y \in HandleIds :
        PtrEq(x, y) /\ UNCHANGED <<varsFunction, varsGlobal, varsCalls>>

SpecConcat == InitConcat /\ [][NextConcat]_vars

IdleStringVars == InitStringVars

InitFunction == IdleStringVars /\ InitFunctionVars /\ IdleGlobalVars /\ IdleCallsVars

NextFunction ==
    \/ \E v \in Values : fn_bind_this_value(v) /\ UNCHANGED <<varsString, varsGlobal, varsCalls>>
    \/ fn_get_this_binding /\ UNCHANGED <<varsString, varsGlobal, varsCalls>>
    \/ fn_has_this_binding /\ UNCHANGED <<varsString, varsGlobal, varsCalls>>
    \/ fn_has_super_binding /\ UNCHANGED <<varsString, varsGlobal, varsCalls>>
    \/ \E v \in Values : set_home_object(v) /\ UNCHANGED <<varsString, varsGlobal, varsCalls>>
    \/ fn_get_super_base /\ UNCHANGED <<varsString, varsGlobal, varsCalls>>
    \/ \E n \in Names : fn_has_binding(n) /\ UNCHANGED <<varsString, varsGlobal, varsCalls>>
    \/ \E n \in Names, d \in BOOLEAN, r \in BOOLEAN :
        fn_create_mutable_binding(n, d, r) /\ UNCHANGED <<varsString, varsGlobal, varsCalls>>
    \/ \E n \in Names, s \in BOOLEAN :
        fn_create_immutable_binding(n, s) /\ UNCHANGED <<varsString, varsGlobal, varsCalls>>
    \/ \E n \in Names, v \in BindingValues : fn_initialize_binding(n, v) /\ UNCHANGED <<varsString, varsGlobal, varsCalls>>
    \/ \E n \in Names, v \in BindingValues, s \in BOOLEAN :
        fn_set_mutable_binding(n, v, s) /\ UNCHANGED <<varsString, varsGlobal, varsCalls>>
    \/ \E n \in Names, s \in BOOLEAN : fn_get_binding_value(n, s) /\ UNCHANGED <<varsString, varsGlobal, varsCalls>>
    \/ \E n \in Names : fn_delete_binding(n) /\ UNCHANGED <<varsString, varsGlobal, varsCalls>>

SpecFunction == InitFunction /\ [][NextFunction]_vars

InitGlobal == IdleStringVars /\ IdleFunctionVars /\ InitGlobalVars /\ IdleCallsVars

NextGlobal ==
    \/ \E n \in Names, d \in BOOLEAN :
        create_global_var_binding(n, d) /\ UNCHANGED <<varsString, varsFunction, varsCalls>>
    \/ \E n \in Names, v \in BindingValues, d \in BOOLEAN :
        create_global_function_binding(n, v, d) /\ UNCHANGED <<varsString, varsFunction, varsCalls>>
    \/ \E n \in Names :
        g_has_restricted_global_property(n) /\ UNCHANGED <<varsString, varsFunction, varsCalls>>
    \/ \E n \in Names : g_can_declare_global_var(n) /\ UNCHANGED <<varsString, varsFunction, varsCalls>>
    \/ \E n \in Names :
        g_can_declare_global_function(n) /\ UNCHANGED <<varsString, varsFunction, varsCalls>>
    \/ g_has_this_binding /\ UNCHANGED <<varsString, varsFunction, varsCalls>>
    \/ g_get_this_binding /\ UNCHANGED <<varsString, varsFunction, varsCalls>>
    \/ g_has_super_binding /\ UNCHANGED <<varsString, varsFunction, varsCalls>>
    \/ \E n \in Names : g_has_binding(n) /\ UNCHANGED <<varsString, varsFunction, varsCalls>>
    \/ \E n \in Names, d \in BOOLEAN, r \in BOOLEAN :
        g_create_mutable_binding(n, d, r) /\ UNCHANGED <<varsString, varsFunction, varsCalls>>
    \/ \E n \in Names, s \in BOOLEAN :
        g_create_immutable_binding(n, s) /\ UNCHANGED <<varsString, varsFunction, varsCalls>>
    \/ \E n \in Names, v \in BindingValues :
        g_initialize_binding(n, v) /\ UNCHANGED <<varsString, varsFunction, varsCalls>>
    \/ \E n \in Names, v \in BindingValues, s \in BOOLEAN :
        g_set_mutable_binding(n, v, s) /\ UNCHANGED <<varsString, varsFunction, varsCalls>>
    \/ \E n \in Names, s \in BOOLEAN :
        g_get_binding_value(n, s) /\ UNCHANGED <<varsString, varsFunction, varsCalls>>
    \/ \E n \in Names : g_delete_binding(n) /\ UNCHANGED <<varsString, varsFunction, varsCalls>>

SpecGlobal == InitGlobal /\ [][NextGlobal]_vars

InitCalls == IdleStringVars /\ IdleFunctionVars /\ IdleGlobalVars /\ InitCallsVars

NextCalls ==
    \/ call_index_of /\ UNCHANGED <<varsString, varsFunction, varsGlobal>>
    \/ call_string_to_number /\ UNCHANGED <<varsString, varsFunction, varsGlobal>>
    \/ call_Error_to_string /\ UNCHANGED <<varsString, varsFunction, varsGlobal>>

SpecCalls == InitCalls /\ [][NextCalls]_vars

\* A Function record inside the Global record, each drawn in a state its
\* binding operations bring it to (a name unbound, a mutable binding not yet
\* initialized, an initialized mutable binding, an initialized strict
\* immutable binding), and one declaration or assignment made from the
\* function's scope or from the global scope, for either VariableScope.
InitScopes ==
    LET decls == [Names -> {NoBinding, Binding(NoValue, TRUE, TRUE, FALSE),
                            Binding("v1", TRUE, FALSE, FALSE),
                            Binding("v1", FALSE, FALSE, TRUE)}]
    IN  /\ IdleStringVars
        /\ IdleCallsVars
        /\ fnRec = FunctionEnvironmentRecord_new("F", NoValue, "Uninitialized", Undefined).rec
        /\ fnDecl \in decls
        /\ fnBound = NoValue
        /\ fnLast = [op |-> "new", arg |-> NoValue, pre |-> "Uninitialized", out |-> Ok(Unit)]
        /\ fnPanicked = FALSE
        /\ gObj \in [props : [Names -> InitialProps], extensible : BOOLEAN]
        /\ gDecl \in decls
        /\ var_names = {}
        /\ global_this_binding = GlobalObject
        /\ gLast = GLast("new", NoValue, GlobalObject, "object", Ok(Unit))
        /\ gPanicked = FALSE

NextScopes ==
    \/ \E n \in Names, deletion \in BOOLEAN, scope \in {"Block", "Function"} :
            /\ fnLast.op = "new" /\ gLast.op = "new"
            /\ fn_recursive_create_mutable_binding(n, deletion, scope)
            /\ UNCHANGED <<varsString, varsGlobal, varsCalls>>
    \/ \E n \in Names, deletion \in BOOLEAN, scope \in {"Block", "Function"} :
            /\ fnLast.op = "new" /\ gLast.op = "new"
            /\ fn_recursive_create_immutable_binding(n, deletion, scope)
            /\ UNCHANGED <<varsString, varsGlobal, varsCalls>>
    \/ \E n \in Names, deletion \in BOOLEAN, scope \in {"Block", "Function"} :
            /\ fnLast.op = "new" /\ gLast.op = "new"
            /\ g_recursive_create_mutable_binding(n, deletion, scope)
            /\ UNCHANGED <<varsString, varsFunction, varsCalls>>
    \/ \E n \in Names, deletion \in BOOLEAN, scope \in {"Block", "Function"} :
            /\ fnLast.op = "new" /\ gLast.op = "new"
            /\ g_recursive_create_immutable_binding(n, deletion, scope)
            /\ UNCHANGED <<varsString, varsFunction, varsCalls>>
    \/ \E n \in Names, value \in BindingValues, strict \in BOOLEAN :
            /\ fnLast.op = "new" /\ gLast.op = "new"
            /\ g_recursive_set_mutable_binding(n, value, strict)
            /\ UNCHANGED <<varsString, varsFunction, varsCalls>>
    \/ \E n \in Names, value \in BindingValues :
            /\ fnLast.op = "new" /\ gLast.op = "new"
            /\ g_recursive_initialize_binding(n, value)
            /\ UNCHANGED <<varsString, varsFunction, varsCalls>>

SpecScopes == InitScopes /\ [][NextScopes]_vars

(***************************************************************************)
(* Properties of JsString.                                                 *)
(***************************************************************************)
\* C1: over any sequence of clones and drops, an allocation is deallocated
\* exactly once, at the drop of its last live handle: it has been freed once
\* when no handle to it is left, and not at all while a handle to it is live.
C1_FreedExactlyOnceAtLastDrop ==
    \A a \in AllocIds :
        IF heap[a] = NoInner
        THEN frees[a] = 0 /\ HandlesOf(a) = {}
        ELSE /\ frees[a] = (IF HandlesOf(a) = {} THEN 1 ELSE 0)
             /\ heap[a].live = (HandlesOf(a) # {})

\* The last handle of one allocation has just been dropped, and the
\* allocation freed, while another allocation still has two handles.
C1_Witness ==
    /\ strLast.op = "drop"
    /\ strLast.pre = 1
    /\ frees[strLast.alloc] = 1
    /\ \E b \in AllocIds : Cardinality(HandlesOf(b)) >= 2

\* C2: y = x.clone() on an allocation of refcount k makes refcount(x) =
\* refcount(y) = k + 1, and dropping a handle that is not the last lowers the
\* refcount seen through every remaining handle by exactly 1.
C2_CloneAndDropMoveRefcountByOne ==
    /\ strLast.op = "clone" =>
        /\ refcount(strLast.src) = strLast.pre + 1
        /\ refcount(strLast.h) = strLast.pre + 1
    /\ (strLast.op = "drop" /\ strLast.pre > 1) =>
        /\ HandlesOf(strLast.alloc) # {}
        /\ \A g \in HandlesOf(strLast.alloc) : refcount(g) = strLast.pre - 1

\* A handle was dropped at refcount 3 (after two clones): two handles remain.
C2_Witness ==
    /\ strLast.op = "drop"
    /\ strLast.pre = 3
    /\ Cardinality(HandlesOf(strLast.alloc)) = 2

\* C3: the refcount stored in a live allocation is the number of live handles
\* pointing to it, so it is at least 1 while a handle exists; and every handle
\* points to a live allocation.
C3_RefcountIsNumberOfHandles ==
    /\ \A a \in AllocIds :
        heap[a].live =>
            /\ heap[a].refcount = Cardinality(HandlesOf(a))
            /\ heap[a].refcount >= 1
    /\ \A h \in LiveHandles : heap[handle[h]].live

\* A live allocation shared by two handles, after a third was dropped.
C3_Witness ==
    /\ strLast.op = "drop"
    /\ strLast.pre = 3
    /\ heap[strLast.alloc].live
    /\ heap[strLast.alloc].refcount = 2

(***************************************************************************)
(* Properties of the Function environment record.                          *)
(***************************************************************************)
\* C4: this_binding_status changes only by bind_this_value taking
\* Uninitialized to Initialized; Lexical and Initialized records keep their
\* status whatever operation is called.
C4_StatusOnlyUninitializedToInitialized ==
    [][fnRec'.this_binding_status # fnRec.this_binding_status =>
        /\ fnRec.this_binding_status = "Uninitialized"
        /\ fnRec'.this_binding_status = "Initialized"
        /\ fnLast'.op = "bind_this_value"]_vars

\* bind_this_value has taken an Uninitialized record to Initialized.
C4_Witness ==
    /\ fnLast.op = "bind_this_value"
    /\ fnLast.pre = "Uninitialized"
    /\ fnRec.this_binding_status = "Initialized"
    /\ fnLast.out = Ok(fnRec.this_value)

\* C5: bind_this_value on an Initialized record returns a reference error as
\* an ordinary failure result and leaves this_value and the status unchanged.
C5_RebindIsAReferenceError ==
    [][(fnLast'.op = "bind_this_value" /\ fnRec.this_binding_status = "Initialized") =>
        /\ fnLast'.out.kind = "err"
        /\ ~fnPanicked'
        /\ fnRec'.this_binding_status = "Initialized"
        /\ fnRec'.this_value = fnRec.this_value]_vars

\* C10: get_this_binding returns the stored this_value, which is the one a
\* successful bind_this_value was given, when the status is Initialized; fails
\* with a reference error when it is Uninitialized; panics when it is Lexical;
\* and never changes the record.
C10_GetThisBindingByStatus ==
    [][fnLast'.op = "get_this_binding" =>
        /\ fnRec' = fnRec
        /\ fnDecl' = fnDecl
        /\ CASE fnRec.this_binding_status = "Initialized" ->
                    /\ fnLast'.out = Ok(fnRec.this_value)
                    /\ fnBound # NoValue => fnRec.this_value = fnBound
                    /\ ~fnPanicked'
             [] fnRec.this_binding_status = "Uninitialized" ->
                    /\ fnLast'.out =
                        Err("ReferenceError: Uninitialised binding for this function")
                    /\ ~fnPanicked'
             [] fnRec.this_binding_status = "Lexical" ->
                    /\ fnLast'.out.kind = "panic"
                    /\ fnPanicked']_vars

\* get_this_binding has returned the value an earlier bind_this_value stored.
C10_Witness ==
    /\ fnLast.op = "get_this_binding"
    /\ fnLast.pre = "Initialized"
    /\ fnLast.out = Ok("obj1")
    /\ fnBound = "obj1"
    /\ fnDecl # EmptyDecl

(***************************************************************************)
(* Properties of the Global environment record.                            *)
(***************************************************************************)
ShadowedOps ==
    {"has_binding", "get_binding_value", "set_mutable_binding",
     "initialize_binding", "delete_binding"}

\* C6: has_binding, get_binding_value, set_mutable_binding, initialize_binding
\* and delete_binding act on the Declarative half whenever it holds the name,
\* leaving the global object alone, and reach the Object half only when the
\* Declarative half lacks the name.
C6_DeclarativeShadowsObject ==
    [][gLast'.op \in ShadowedOps =>
        LET n == gLast'.name IN
        IF Decl_has_binding(gDecl, n)
        THEN /\ gLast'.half = "declarative"
             /\ gObj' = gObj
             /\ var_names' = var_names
             /\ gLast'.op = "has_binding" => gLast'.out = Ok(TRUE)
             /\ gLast'.op = "get_binding_value" =>
                    gLast'.out = Decl_get_binding_value(gDecl, n, gLast'.arg).out
        ELSE /\ gLast'.half = "object"
             /\ gDecl' = gDecl]_vars

\* After create_global_var_binding(n, _) and a lexical create_mutable_binding(n),
\* get_binding_value(n) was answered by the Declarative half: the uninitialized
\* lexical binding's error, not the global property's undefined.
C6_Witness ==
    /\ gLast.op = "get_binding_value"
    /\ gLast.half = "declarative"
    /\ gLast.name \in var_names
    /\ has_field(gObj, gLast.name)
    /\ gObj.props[gLast.name].value = Undefined
    /\ gDecl[gLast.name].present
    /\ gDecl[gLast.name].value = NoValue
    /\ gLast.out.kind = "err"

\* C7: var_names gains a name only inside create_global_var_binding and loses
\* one only inside delete_binding, when the name was in the set and the delete
\* of the global object's property succeeded; every other operation,
\* create_global_function_binding included, leaves the set unchanged.
C7_VarNamesChangeOnlyByVarBindingAndDelete ==
    [][var_names' # var_names =>
        LET n == gLast'.name IN
        \/ /\ gLast'.op = "create_global_var_binding"
           /\ n \notin var_names
           /\ var_names' = var_names \cup {n}
        \/ /\ gLast'.op = "delete_binding"
           /\ n \in var_names
           /\ var_names' = var_names \ {n}
           /\ ~Decl_has_binding(gDecl, n)
           /\ has_field(gObj, n)
           /\ ~has_field(gObj', n)]_vars

\* create_global_function_binding has installed a function under a name and
\* not recorded it, in a record that has recorded a var name.
C7_Witness ==
    /\ gLast.op = "create_global_function_binding"
    /\ has_field(gObj, gLast.name)
    /\ gLast.name \notin var_names
    /\ var_names # {}

\* C8: delete_binding(n): with n bound in the Declarative half, the result is
\* the declarative delete's and the global object and var_names are untouched;
\* otherwise, with n on the global object, the property delete is attempted and
\* n leaves var_names only when that delete succeeded; with n in neither half
\* it returns true and changes nothing.
C8_DeleteBindingByHalf ==
    [][gLast'.op = "delete_binding" =>
        LET n == gLast'.name IN
        IF Decl_has_binding(gDecl, n)
        THEN /\ gLast'.out = Decl_delete_binding(gDecl, n).out
             /\ gDecl' = Decl_delete_binding(gDecl, n).decl
             /\ gObj' = gObj
             /\ var_names' = var_names
        ELSE IF has_field(gObj, n)
        THEN /\ gDecl' = gDecl
             /\ gObj' = Obj_delete_binding(gObj, n).obj
             /\ var_names' = IF Obj_delete_binding(gObj, n).out = Ok(TRUE)
                             THEN var_names \ {n}
                             ELSE var_names
        ELSE /\ gLast'.out = Ok(TRUE)
             /\ gDecl' = gDecl
             /\ gObj' = gObj
             /\ var_names' = var_names]_vars

\* delete_binding met a var-declared property it could not delete: the
\* property and the var name are both still there.
C8_Witness ==
    /\ gLast.op = "delete_binding"
    /\ gLast.half = "object"
    /\ has_field(gObj, gLast.name)
    /\ gLast.name \in var_names

\* C9: create_global_var_binding(n, deletable) creates a mutable property n of
\* the global object, initialized to undefined, exactly when the global object
\* lacks n and is extensible, and leaves the global object as it was otherwise;
\* it succeeds with n in var_names, which a repeated call does not change.
C9_CreateGlobalVarBinding ==
    [][gLast'.op = "create_global_var_binding" =>
        LET n == gLast'.name IN
        /\ gLast'.out = Ok(Unit)
        /\ IF ~has_field(gObj, n) /\ is_extensible(gObj)
           THEN /\ gObj'.props[n] = Prop(Undefined, TRUE, TRUE, gLast'.arg)
                /\ \A m \in Names \ {n} : gObj'.props[m] = gObj.props[m]
                /\ gObj'.extensible = gObj.extensible
           ELSE gObj' = gObj
        /\ var_names' = var_names \cup {n}
        /\ n \in var_names => var_names' = var_names
        /\ \E m \in Names : m = n /\ has_var_declaration(m)'
        /\ gDecl' = gDecl]_vars

\* create_global_var_binding ran on a non-extensible global object that lacks
\* the name: no property was created and the name is var-declared.
C9_Witness ==
    /\ gLast.op = "create_global_var_binding"
    /\ ~has_field(gObj, gLast.name)
    /\ ~is_extensible(gObj)
    /\ gLast.name \in var_names

C12_NewWithThisIsInitialized ==
    fnLast.op = "new" =>
        IF fnLast.arg # NoValue
        THEN /\ ~fnPanicked
             /\ fnRec.this_binding_status = "Initialized"
             /\ fnRec.this_value = fnLast.arg
             /\ GetThisBinding(fnRec) = Ok(fnLast.arg)
        ELSE /\ fnRec.this_binding_status = fnLast.pre
             /\ fnRec.this_value = Undefined

\* C12, amended: a record built by new with a this value v and binding_status
\* Uninitialized is Initialized with this_value = v and get_this_binding
\* returns v; with a this value and binding_status Lexical or Initialized new
\* panics and returns no record; built without a this value it keeps the
\* passed status with this_value undefined.
C12_NewBindsThisOnlyWhenUninitialized ==
    fnLast.op = "new" =>
        CASE fnLast.arg = NoValue ->
                /\ ~fnPanicked
                /\ fnRec.this_binding_status = fnLast.pre
                /\ fnRec.this_value = Undefined
          [] fnLast.arg # NoValue /\ fnLast.pre = "Uninitialized" ->
                /\ ~fnPanicked
                /\ fnRec.this_binding_status = "Initialized"
                /\ fnRec.this_value = fnLast.arg
                /\ GetThisBinding(fnRec) = Ok(fnLast.arg)
          [] OTHER ->
                /\ fnPanicked
                /\ fnLast.out.kind = "panic"

C12_Witness ==
    /\ fnLast.op = "new"
    /\ fnLast.arg = "obj1"
    /\ fnLast.pre = "Uninitialized"
    /\ fnRec.this_binding_status = "Initialized"
    /\ GetThisBinding(fnRec) = Ok("obj1")

\* C13: can_declare_global_function(n) answers the global object's
\* extensibility when the object has no property n, true when n exists and is
\* configurable, and otherwise true exactly when n is both writable and
\* enumerable; a non-configurable, non-writable n gives false.
C13_CanDeclareGlobalFunction ==
    gLast.op = "can_declare_global_function" =>
        LET p == gObj.props[gLast.name] IN
        /\ ~p.present => gLast.out = Ok(gObj.extensible)
        /\ p.present /\ p.configurable => gLast.out = Ok(TRUE)
        /\ p.present /\ ~p.configurable =>
                gLast.out = Ok(p.writable /\ p.enumerable)
        /\ p.present /\ ~p.configurable /\ ~p.writable => gLast.out = Ok(FALSE)

\* The query ran on a non-configurable property that is writable and
\* enumerable, in a global object that is not extensible, and answered true.
C13_Witness ==
    /\ gLast.op = "can_declare_global_function"
    /\ gObj.props[gLast.name].present
    /\ ~gObj.props[gLast.name].configurable
    /\ gObj.props[gLast.name].writable
    /\ gObj.props[gLast.name].enumerable
    /\ ~gObj.extensible
    /\ gLast.out = Ok(TRUE)

\* C14: create_global_function_binding(n, value, deletable) installs a
\* descriptor holding only the value, completed by the engine's defaults, when
\* n is absent or configurable, and otherwise the descriptor {value, writable:
\* true, enumerable: true, configurable: deletable}; after the call property n
\* holds value.
C14_CreateGlobalFunctionBinding ==
    [][gLast'.op = "create_global_function_binding" =>
        LET n == gLast'.name
            value == gLast'.arg[1]
            deletable == gLast'.arg[2]
            old == gObj.props[n]
        IN  /\ IF ~old.present \/ old.configurable
               THEN gObj'.props[n] =
                        CompleteDescriptor(Descriptor(value, None, None, None))
               ELSE gObj'.props[n] = Prop(value, TRUE, TRUE, deletable)
            /\ gObj'.props[n].present
            /\ gObj'.props[n].value = value
            /\ \A m \in Names \ {n} : gObj'.props[m] = gObj.props[m]]_vars

\* The call replaced a non-configurable property: the value is stored under
\* a writable, enumerable descriptor that stays non-configurable.
C14_Witness ==
    /\ gLast.op = "create_global_function_binding"
    /\ gLast.arg = <<Undefined, FALSE>>
    /\ gObj.props[gLast.name] = Prop(Undefined, TRUE, TRUE, FALSE)

\* C15: has_restricted_global_property(n) is true exactly when the global
\* object has a property n whose configurable attribute is false; it is false
\* for an absent property and for a configurable one.
C15_HasRestrictedGlobalProperty ==
    gLast.op = "has_restricted_global_property" =>
        gLast.out = Ok(/\ gObj.props[gLast.name].present
                       /\ gObj.props[gLast.name].configurable = FALSE)

C15_Witness ==
    /\ gLast.op = "has_restricted_global_property"
    /\ gObj.props[gLast.name].present
    /\ ~gObj.props[gLast.name].configurable
    /\ gLast.out = Ok(TRUE)

\* C16: can_declare_global_var(n) is true exactly when the global object
\* already has a property n or is extensible.
C16_CanDeclareGlobalVar ==
    gLast.op = "can_declare_global_var" =>
        gLast.out = Ok(has_field(gObj, gLast.name) \/ is_extensible(gObj))

\* The query answered true for an existing property of a global object that
\* is not extensible.
C16_Witness ==
    /\ gLast.op = "can_declare_global_var"
    /\ has_field(gObj, gLast.name)
    /\ ~is_extensible(gObj)
    /\ gLast.out = Ok(TRUE)

\* C17: on the Global record create_mutable_binding(n, _, allow_reuse = false)
\* and create_immutable_binding(n, _) fail with the type error "Binding
\* already exists" whenever n is bound in the Declarative half, and the failed
\* call leaves the Declarative half, the global object and var_names as they
\* were; with allow_reuse = true create_mutable_binding does not fail so.
C17_CreateOnBoundNameFails ==
    [][(/\ gLast'.op \in {"create_mutable_binding", "create_immutable_binding"}
        /\ Decl_has_binding(gDecl, gLast'.name)) =>
        IF gLast'.op = "create_mutable_binding" /\ gLast'.arg = TRUE
        THEN gLast'.out.kind = "ok"
        ELSE /\ gLast'.out = Err("TypeError: Binding already exists")
             /\ gDecl' = gDecl
             /\ gObj' = gObj
             /\ var_names' = var_names]_vars

\* create_mutable_binding without name reuse has just failed on a bound name,
\* in a record that also has a var-declared name.
C17_Witness ==
    /\ gLast.op = "create_mutable_binding"
    /\ gLast.arg = FALSE
    /\ gLast.out = Err("TypeError: Binding already exists")
    /\ Decl_has_binding(gDecl, gLast.name)
    /\ var_names # {}

\* C18: index_of(self, needle, from) returns the least UTF-16 code-unit index
\* i >= from with i + searchLen <= len at which the code units of self are
\* the code units of needle (from itself for an empty needle and from <= len),
\* and none when there is no such index; it never returns an index at which
\* the code units differ, and an astral character counts as two code units.
C18_IndexOfIsLeastCodeUnitMatch ==
    call.fn = "index_of" /\ call.done =>
        LET unitsSelf == encode_utf16(call.args[1])
            unitsNeedle == encode_utf16(call.args[2])
            from == call.args[3]
            len == Len(unitsSelf)
            searchLen == Len(unitsNeedle)
            Match(i) == /\ i >= from
                        /\ i + searchLen <= len
                        /\ SubSeq(unitsSelf, i + 1, i + searchLen) = unitsNeedle
            matches == {i \in 0..len : Match(i)}
        IN  IF matches = {}
            THEN call.out = None
            ELSE /\ call.out # None
                 /\ call.out[1] \in matches
                 /\ \A i \in matches : call.out[1] <= i

\* C19: two JsString handles compare equal exactly when their byte contents
\* are equal, whether or not they share an allocation, and handles with equal
\* bytes feed the hasher the same as each other and as their raw text:
\* hash(x) == hash(x.as_str()).
C19_EqualityAndHashFollowBytes ==
    /\ \A x \in LiveHandles, y \in LiveHandles :
        /\ JsString_eq(x, y) = (as_str(x) = as_str(y))
        /\ as_str(x) = as_str(y) => JsString_hash(x) = JsString_hash(y)
    /\ \A x \in LiveHandles : JsString_hash(x) = str_hash(as_str(x))
    /\ strLast.op = "eq" => strLast.out = (as_str(strLast.h) = as_str(strLast.src))
    /\ strLast.op = "hash" => strLast.out = str_hash(as_str(strLast.h))

\* Two handles to different allocations holding the same non-empty text have
\* just compared equal.
C19_Witness ==
    /\ strLast.op = "eq"
    /\ handle[strLast.h] # handle[strLast.src]
    /\ as_str(strLast.h) # <<>>
    /\ strLast.out = TRUE

\* C20 as stated: concat(a, b) yields a fresh handle with refcount 1 whose
\* as_str is a's text followed by b's and whose length is |a| + |b|, and it
\* leaves the refcounts and contents of any JsString arguments' allocations as
\* they were; a concat of concat results has refcount 1 like any other.
C20_ConcatLeavesArgumentsAlone ==
    [][strLast'.op = "concat" =>
        LET x == strLast'.src[1]
            y == strLast'.src[2]
        IN  /\ \E r \in HandleIds :
                /\ r = strLast'.h
                /\ handle[r] = 0
                /\ heap[handle'[r]] = NoInner
                /\ refcount(r)' = 1
                /\ as_str(r)' = as_ref(x) \o as_ref(y)
                /\ heap'[handle'[r]].len = Len(as_ref(x)) + Len(as_ref(y))
            /\ \A arg \in {x, y} :
                arg.kind # "str" =>
                    LET a == handle[arg.h] IN
                    /\ heap'[a].live
                    /\ heap'[a].refcount = heap[a].refcount
                    /\ heap'[a].len = heap[a].len
                    /\ heap'[a].data = heap[a].data]_vars

\* C20, amended: concat(a, b) yields a fresh handle with refcount 1 whose
\* as_str is a's text followed by b's and whose length is |a| + |b|, also
\* when an argument is itself a concat result; it leaves the contents of its
\* JsString arguments' allocations as they were, and their refcounts too for
\* arguments passed by reference; each JsString passed by value is dropped
\* when concat returns, which lowers its allocation's refcount by one or, when
\* no other handle is left, frees the allocation.
C20_ConcatDropsOnlyWhatItIsGiven ==
    [][strLast'.op = "concat" =>
        LET x == strLast'.src[1]
            y == strLast'.src[2]
            given(a) == Cardinality({i \in 1..2 :
                            /\ strLast'.src[i].kind = "own"
                            /\ handle[strLast'.src[i].h] = a})
        IN  /\ \E r \in HandleIds :
                /\ r = strLast'.h
                /\ handle[r] = 0
                /\ heap[handle'[r]] = NoInner
                /\ refcount(r)' = 1
                /\ as_str(r)' = as_ref(x) \o as_ref(y)
                /\ heap'[handle'[r]].len = Len(as_ref(x)) + Len(as_ref(y))
            /\ \A a \in AllocIds :
                heap[a] # NoInner =>
                    /\ heap'[a].len = heap[a].len
                    /\ heap'[a].data = heap[a].data
                    /\ IF given(a) = 0
                       THEN heap'[a] = heap[a] /\ frees'[a] = frees[a]
                       ELSE IF heap[a].refcount > given(a)
                       THEN /\ heap'[a].live
                            /\ heap'[a].refcount = heap[a].refcount - given(a)
                            /\ frees'[a] = frees[a]
                       ELSE /\ ~heap'[a].live
                            /\ frees'[a] = frees[a] + 1]_vars

\* concat has taken one handle of a shared allocation by value and borrowed
\* the other: the result has refcount 1 and the text twice, and the shared
\* allocation is left with the borrowed handle alone.
C20_Witness ==
    /\ strLast.op = "concat"
    /\ strLast.src[1].kind = "own"
    /\ strLast.src[2].kind = "ref"
    /\ strLast.pre = <<2, 2>>
    /\ refcount(strLast.src[2].h) = 1
    /\ as_str(strLast.src[2].h) = <<97>>
    /\ as_str(strLast.h) = <<97, 97>>
    /\ refcount(strLast.h) = 1

\* C21: for every text s, the empty one included, JsString::new(s) yields a
\* fresh handle with refcount 1 whose as_str() is s and whose len() is the
\* byte length of s, and the length and content of an allocation stay the
\* same for as long as a handle to it exists.
C21_NewHoldsTheTextUnchanged ==
    [][/\ strLast'.op = "new" =>
            \E h \in HandleIds :
                /\ h = strLast'.h
                /\ handle[h] = 0
                /\ heap[handle'[h]] = NoInner
                /\ {g \in HandleIds : handle'[g] = handle'[h]} = {h}
                /\ refcount(h)' = 1
                /\ as_str(h)' = strLast'.text
                /\ JsString_len(h)' = Len(strLast'.text)
       /\ \A h \in HandleIds :
            handle[h] # 0 /\ handle'[h] # 0 =>
                /\ handle'[h] = handle[h]
                /\ as_str(h)' = as_str(h)
                /\ JsString_len(h)' = JsString_len(h)
       /\ \A a \in AllocIds :
            heap[a].live /\ heap'[a].live =>
                /\ heap'[a].len = heap[a].len
                /\ heap'[a].data = heap[a].data]_vars

\* new("") has just made an empty string next to an allocation that still
\* holds its one byte under two handles.
C21_Witness ==
    /\ strLast.op = "new"
    /\ strLast.text = <<>>
    /\ refcount(strLast.h) = 1
    /\ JsString_len(strLast.h) = 0
    /\ \E g \in LiveHandles : refcount(g) = 2 /\ as_str(g) = <<97>>

\* C22: ptr_eq(a, b) is true exactly when a and b point to the same
\* allocation: true for a handle and any clone of it, false for two handles
\* made by separate new or concat calls even when their text is equal.
C22_PtrEqIsSameAllocation ==
    [][/\ strLast'.op = "clone" =>
            \E x \in HandleIds, y \in HandleIds :
                /\ x = strLast'.src /\ y = strLast'.h
                /\ ptr_eq(x, y)'
                /\ \A g \in HandleIds :
                     handle[g] # 0 => (ptr_eq(y, g)' <=> ptr_eq(x, g))
       /\ strLast'.op \in {"new", "concat"} =>
            \E r \in HandleIds :
                /\ r = strLast'.h
                /\ \A g \in HandleIds \ {r} : handle'[g] # 0 => ~ptr_eq(r, g)'
       /\ \A g \in HandleIds, k \in HandleIds :
            (handle[g] # 0 /\ handle[k] # 0 /\ handle'[g] # 0 /\ handle'[k] # 0) =>
                (ptr_eq(g, k)' <=> ptr_eq(g, k))
       /\ strLast'.op = "ptr_eq" =>
            \E x \in HandleIds, y \in HandleIds :
                /\ x = strLast'.h /\ y = strLast'.src
                /\ strLast'.out = (heap'[handle'[x]].live /\ handle'[x] = handle'[y])
                /\ strLast'.out =>
                     /\ as_str(x)' = as_str(y)'
                     /\ refcount(x)' = refcount(y)'
                     /\ refcount(x)' >= 2]_vars

\* ptr_eq has just answered false for two handles that hold the same
\* non-empty text, one of them the result of a concat.
C22_Witness ==
    /\ strLast.op = "ptr_eq"
    /\ strLast.out = FALSE
    /\ as_str(strLast.h) = as_str(strLast.src)
    /\ as_str(strLast.h) # <<>>
    /\ heap[handle[strLast.src]].len = 2

\* C23: in every reachable state of a Global record has_this_binding() is
\* true, has_super_binding() is false and get_this_binding() returns the
\* globalThis object given at construction; no operation of the record
\* changes that object reference.
C23_GlobalThisIsFixed ==
    /\ gLast.op = "new" => global_this_binding = gLast.arg
    /\ [][/\ global_this_binding' = global_this_binding
          /\ gLast'.op = "has_this_binding" => gLast'.out = Ok(TRUE)
          /\ gLast'.op = "has_super_binding" => gLast'.out = Ok(FALSE)
          /\ gLast'.op = "get_this_binding" => gLast'.out = Ok(global_this_binding)]_vars

\* get_this_binding has handed out a globalThis that is not the global
\* object, after the record has created and var-declared a property.
C23_Witness ==
    /\ gLast.op = "get_this_binding"
    /\ gLast.out = Ok("obj1")
    /\ global_this_binding # GlobalObject
    /\ var_names # {}

\* C24: for every Function record has_this_binding() is true exactly when
\* this_binding_status is not Lexical: true for Uninitialized and for
\* Initialized, false for Lexical.
C24_HasThisBindingIffNotLexical ==
    /\ HasThisBinding(fnRec) =
            (fnRec.this_binding_status \in {"Uninitialized", "Initialized"})
    /\ fnLast.op = "has_this_binding" =>
            /\ fnLast.pre = fnRec.this_binding_status
            /\ fnLast.pre = "Lexical" => fnLast.out = Ok(FALSE)
            /\ fnLast.pre = "Uninitialized" => fnLast.out = Ok(TRUE)
            /\ fnLast.pre = "Initialized" => fnLast.out = Ok(TRUE)

\* has_this_binding has answered true on a record whose this is not bound.
C24_Witness ==
    /\ fnLast.op = "has_this_binding"
    /\ fnRec.this_binding_status = "Uninitialized"
    /\ fnLast.out = Ok(TRUE)

C26_StringToNumberExamples ==
    call.fn = "string_to_number" /\ call.done =>
        LET self == call.args[1] IN
        /\ self = <<>> => call.out = F64("finite", FALSE, 0, 0)
        /\ self = <<" ", " ", "4", "2", " ">> => call.out = F64("finite", FALSE, 42, 0)
        /\ self = Infinity => call.out = INFINITY
        /\ self = <<"-">> \o Infinity => call.out = NEG_INFINITY
        /\ self = <<"i", "n", "f">> => call.out = NAN
        /\ self = <<"0", "x", "F", "F">> => call.out = F64("finite", FALSE, 255, 0)
        /\ self = <<"a", "b", "c">> => call.out = NAN

\* C27: string_to_number returns an infinity only for a trimmed text that is
\* exactly "Infinity", "+Infinity" or "-Infinity" (or an overflowing numeric
\* literal); every other trimmed text that begins, ignoring case, with inf,
\* +inf, -inf, nan, +nan or -nan yields NaN.
C27_InfinityOnlyWhenSpelledOut ==
    call.fn = "string_to_number" /\ call.done =>
        LET t == trim_matches(call.args[1])
            spelled == {Infinity, <<"+">> \o Infinity, <<"-">> \o Infinity}
            abbreviations == {sg \o w : sg \in {<<>>, <<"+">>, <<"-">>},
                                        w \in {<<"i", "n", "f">>, <<"n", "a", "n">>}}
            overflowing ==
                /\ t # <<>>
                /\ parse_number(t) # None
                /\ parse_number(t)[1].len = Len(t)
                /\ parse_number(t)[1].value.kind = "inf"
        IN  /\ call.out.kind = "inf" => t \in spelled \/ overflowing
            /\ t \notin spelled /\ (\E w \in abbreviations : eq_ignore_case(t, w)) =>
                    call.out = NAN

(***************************************************************************)
(* Further properties of the environment records.                          *)
(***************************************************************************)
\* C28: whenever delete_binding(n) on the Global record returns true,
\* has_binding(n) on that record is false immediately afterwards: the name
\* resolves in neither half.
C28_DeletedNameIsUnbound ==
    gLast.op = "delete_binding" /\ gLast.out = Ok(TRUE) =>
        /\ ~Decl_has_binding(gDecl, gLast.name)
        /\ ~Obj_has_binding(gObj, gLast.name)

\* C29: on a Function record the binding operations (create_mutable_binding,
\* create_immutable_binding, initialize_binding, set_mutable_binding,
\* delete_binding) never change this_binding_status, this_value, home_object,
\* new_target or the function reference, and bind_this_value never changes the
\* declarative bindings, home_object or new_target.
C29_BindingsAndThisAreSeparate ==
    [][/\ fnLast'.op \in {"create_mutable_binding", "create_immutable_binding",
                          "initialize_binding", "set_mutable_binding", "delete_binding"} =>
            /\ fnRec'.this_binding_status = fnRec.this_binding_status
            /\ fnRec'.this_value = fnRec.this_value
            /\ fnRec'.home_object = fnRec.home_object
            /\ fnRec'.new_target = fnRec.new_target
            /\ fnRec'.function = fnRec.function
       /\ fnLast'.op = "bind_this_value" =>
            /\ fnDecl' = fnDecl
            /\ fnRec'.home_object = fnRec.home_object
            /\ fnRec'.new_target = fnRec.new_target]_vars

\* bind_this_value has bound the this value of a record that has a home
\* object and a binding.
C29_Witness ==
    /\ fnLast.op = "bind_this_value"
    /\ fnLast.out.kind = "ok"
    /\ fnRec.this_binding_status = "Initialized"
    /\ fnRec.home_object # Undefined
    /\ \E n \in Names : Decl_has_binding(fnDecl, n)

\* C30: recursive_create_mutable_binding and recursive_create_immutable_binding
\* on a Function record or on a Global record create the binding in that very
\* record for either VariableScope, never in an outer record, and refuse a
\* name the record already holds; on the Global record
\* recursive_set_mutable_binding and recursive_initialize_binding act on the
\* Global record itself, as its own set_mutable_binding and initialize_binding.
C30_RecursiveOpsStayInTheRecord ==
    [][/\ fnLast'.op \in {"recursive_create_mutable_binding",
                          "recursive_create_immutable_binding"} =>
            LET n == fnLast'.arg IN
            /\ gDecl' = gDecl /\ gObj' = gObj /\ var_names' = var_names
            /\ IF Decl_has_binding(fnDecl, n)
               THEN fnDecl' = fnDecl /\ fnLast'.out.kind = "err"
               ELSE /\ fnLast'.out = Ok(Unit)
                    /\ fnDecl'[n].present
                    /\ fnDecl'[n].mutable = (fnLast'.op = "recursive_create_mutable_binding")
                    /\ \A m \in Names \ {n} : fnDecl'[m] = fnDecl[m]
       /\ gLast'.op \in {"recursive_create_mutable_binding",
                         "recursive_create_immutable_binding"} =>
            LET n == gLast'.name IN
            /\ fnDecl' = fnDecl /\ gObj' = gObj /\ var_names' = var_names
            /\ IF Decl_has_binding(gDecl, n)
               THEN gDecl' = gDecl /\ gLast'.out.kind = "err"
               ELSE /\ gLast'.out = Ok(Unit)
                    /\ gDecl'[n].present
                    /\ gDecl'[n].mutable = (gLast'.op = "recursive_create_mutable_binding")
                    /\ \A m \in Names \ {n} : gDecl'[m] = gDecl[m]
       /\ gLast'.op = "recursive_set_mutable_binding" =>
            LET n == gLast'.name IN
            /\ fnDecl' = fnDecl
            /\ \E strict \in BOOLEAN :
                IF Decl_has_binding(gDecl, n)
                THEN /\ gDecl' = Decl_set_mutable_binding(gDecl, n, gLast'.arg, strict).decl
                     /\ gLast'.out = Decl_set_mutable_binding(gDecl, n, gLast'.arg, strict).out
                     /\ gObj' = gObj
                ELSE /\ gObj' = Obj_set_mutable_binding(gObj, n, gLast'.arg, strict).obj
                     /\ gLast'.out = Obj_set_mutable_binding(gObj, n, gLast'.arg, strict).out
                     /\ gDecl' = gDecl
       /\ gLast'.op = "recursive_initialize_binding" =>
            LET n == gLast'.name IN
            /\ fnDecl' = fnDecl
            /\ IF Decl_has_binding(gDecl, n)
               THEN /\ gDecl' = Decl_initialize_binding(gDecl, n, gLast'.arg).decl
                    /\ gObj' = gObj
               ELSE /\ gDecl' = gDecl
                    /\ IF Obj_has_binding(gObj, n)
                       THEN gObj' = Obj_initialize_binding(gObj, n, gLast'.arg).obj
                       ELSE gObj' = gObj /\ gLast'.out.kind = "panic"]_vars

\* A declaration from the function's scope created the binding in the
\* Function record, and the Global record around it does not have the name.
C30_Witness ==
    /\ fnLast.op = "recursive_create_mutable_binding"
    /\ fnLast.out = Ok(Unit)
    /\ Decl_has_binding(fnDecl, fnLast.arg)
    /\ ~Decl_has_binding(gDecl, fnLast.arg)
    /\ ~Obj_has_binding(gObj, fnLast.arg)

(***************************************************************************)
(* Properties of Error.prototype.toString.                                 *)
(***************************************************************************)
\* C31: Error.prototype.toString fails with a type error when this is not an
\* object; otherwise, with name taken as "Error" when the name property is
\* undefined and message as "" when the message property is undefined, it
\* returns message when name is empty, name when message is empty, and name
\* followed by ": " and message otherwise.
C31_ErrorToString ==
    call.fn = "Error_to_string" /\ call.done =>
        LET this == call.args[1] IN
        IF this.type # "object"
        THEN call.out = Err("TypeError: 'this' is not an Object")
        ELSE this.name.type \in {"undefined", "string"}
                /\ this.message.type \in {"undefined", "string"} =>
             LET name == IF this.name.type = "undefined"
                         THEN <<"E", "r", "r", "o", "r">>
                         ELSE this.name.text
                 message == IF this.message.type = "undefined"
                            THEN <<>>
                            ELSE this.message.text
             IN  /\ call.out.kind = "ok"
                 /\ call.out.val.type = "string"
                 /\ name = <<>> => call.out.val.text = message
                 /\ name # <<>> /\ message = <<>> => call.out.val.text = name
                 /\ name # <<>> /\ message # <<>> =>
                        call.out.val.text = name \o <<":", " ">> \o message

\* toString returned the message alone for an object whose name is the empty
\* string.
C31_Witness ==
    /\ call.fn = "Error_to_string"
    /\ call.done
    /\ call.args[1].type = "object"
    /\ call.args[1].name = [type |-> "string", text |-> <<>>]
    /\ call.args[1].message.type = "string"
    /\ call.args[1].message.text # <<>>
    /\ call.out = Ok(call.args[1].message)

====
